---- MODULE Spec2Model ----
(***************************************************************************)
(* The overlay networking core of polygon-sdk (package network): the      *)
(* Server's peer table and dial loop, Join and its join watcher, the       *)
(* PeerEvent subscriptions they run on, and the dial queue.                *)
(***************************************************************************)
EXTENDS Integers, Sequences, FiniteSets, TLC

\* ------------------------------------------------------------ bounds
\* Config.MaxPeers of the modelled server (the default is 10).
MaxPeers == 1
\* Events a subscription holds before the emitter has to wait.
MaxEvents == 1
\* Tasks ever added to the dial queue in the queue-only specification.
MaxQAdds == 4

\* Remote peer identities and the goroutines that call JoinAddr.
Peers == {"p1", "p2"}
Callers == {"c1"}
\* Identities of the queue-only specification.
QIds == {"p1", "p2", "p3", "p4"}

\* Capacity of the channel behind a subscription of the event bus.
SubBuffer == 2
\* Events published in the event-bus specification.
MaxPublish == 4
\* Subscriptions of the event-bus specification.
Subs == {"s1", "s2"}
\* Discovery: the capacity of a bucket (defaultBucketSize, 20 in the program),
\* the number of bits of a routing-table key (256 in the program), the
\* connection events the discovery service handles, and the identities.
defaultBucketSize == 2
KeyBits == 3
MaxDiscEvents == 3
\* Filters created, the last instant of the clock, the timeout of a filter in
\* ticks of the clock, and the chain events.
MaxFilters == 3
MaxTime == 3
FilterTimeout == 2
MaxBlocks == 2
DiscIds == {"p1", "p2", "p3", "p4"}
LocalID == "self"

\* ------------------------------------------------------------ constants
\* Join's tasks are less urgent than discovery's.
JoinPriorityAfterDiscovery == 10 + 1

JoinPriority == 1
DiscoveryPriority == 10
\* Priorities of adds other than Join's and discovery's.
QPriorities == {3, 5}

PeerEventConnected == "PeerConnected"
PeerEventConnectedFailed == "PeerConnectedFailed"
PeerEventDisconnected == "PeerDisconnected"
PeerEventDialConnectedNode == "PeerDialConnectedNode"

NoCaller == "none"
NilTask == [id |-> "nil", priority |-> 0]

VARIABLES
    hostConnected,  \* peers the transport reports Connected (host.Network())
    pending,        \* identities whose handshake is running (identity)
    peers,          \* Server.peers, the peer table
    dialQueue,      \* Server.dialQueue: tasks in insertion order
    dqClosed,       \* the dial queue was closed
    dialPc,         \* runDial: "slots", "pop", "wait", "done"
    slots,          \* runDial's slots
    dialI,          \* runDial's loop counter i
    tt,             \* runDial's tt, the last result of pop
    dialSubQ,       \* events waiting in runDial's SubscribeFn subscription
    dialSubPc,      \* that forwarding goroutine: "run", "closed"
    watchSubQ,      \* events waiting in runJoinWatcher's subscription
    watcherPc,      \* the join watcher: "run", "blocked", "closed"
    joinWatchers,   \* Server.joinWatchers: peer -> the caller owning the channel
    pc,             \* each caller: "idle", "added", "waiting", "timedout", "done"
    addrStr,        \* the address string a caller passed to JoinAddr
    target,         \* the identity parsed from it
    timeout,        \* the caller's timeout: 0, or 1 for any positive duration
    result,         \* what JoinAddr returned
    sawOk,          \* history: a Connected or AlreadyConnected event for the
                    \* target was published during the call and read by the
                    \* watcher before the deadline
    arrived,        \* history: the kind of the first event for the target the
                    \* watcher read while the caller waited in its select
    arrivedFresh,   \* history: that event was published during the call
    closePc,        \* Server.Close: "open", "host", "queue", "closed"
    qStamp,         \* history: when each queued task was first added
    qClock,         \* history: tasks added so far
    lastOp,         \* history: the last queue operation and its result
    lastDisconnect, \* history: the last call of Disconnect and whether it
                    \* called ClosePeer; flip changes with every call
    subState,       \* per subscription: "none", "open", "closed"
    sinks,          \* the event bus's subscriptions, in the order it sends to them
    subOut,         \* per subscription: the buffered channel behind sub.Out()
    runPc,          \* Subscription.run: "none", "recv", "send", "panicked"
    runObj,         \* Subscription.run: the event it holds in s.ch <- &obj
    readPc,         \* the subscriber: "idle" or "get" (inside Get / <-GetCh())
    pubPc,          \* emitEvent: "idle" or "emit"
    pubEv,          \* emitEvent: the event being sent
    pubIdx,         \* emitEvent: the subscription it sends to next
    nPub,           \* history: events published so far
    due,            \* history: per subscription, the events published while it
                    \* was registered
    recv,           \* history: per subscription, the events its reads returned
    rt,             \* discovery.routingTable: its buckets, newest entry first
    discPeers,      \* discovery.peers
    peerstore,      \* host.Peerstore(): the addresses known per identity
    discPc,         \* the node: "run", or "panicked" after a panic
    lastInsert,     \* history: the TryAddPeer of the last step and its result
    lastResp,       \* history: the FindPeers request of the last step and its
                    \* response
    discRunPc,      \* discovery.run: "idle" (in its select) or "querying"
                    \* (inside handleDiscovery's call)
    discTarget,     \* handleDiscovery's target
    lastSync,       \* history: the event syncConnectedPeers handled in the
                    \* last step
    lastLookup,     \* history: the lookup that ended in the last step, the
                    \* nodes of its response and how it ended
    peersLock,      \* Server.peersLock: the goroutine that holds it, or "none"
    joinWatchersLock, \* Server.joinWatchersLock: its holder, or "none"
    waiters,        \* Server.joinWatchers with several callers: per peer,
                    \* the caller whose channel is in the map, or "none"
    wPc,            \* watch, per caller: "idle", "register", "wait",
                    \* "expire", "done"
    wPeer,          \* watch's peerID, per caller
    wResult,        \* what watch returned, per caller
    connPc,         \* addPeer / delPeer between Lock and the write
    jwPc,           \* runJoinWatcher between Lock and Unlock: the peer of
                    \* its event, or "idle"
    lastAccess,     \* history: the table access of the last step and
                    \* whether its goroutine held the table's lock
    fmFilters,      \* FilterManager.filters and the Filter objects: per id,
                    \* whether it is in the map, and the filter's fields
    fmTimer,        \* FilterManager.timer: the heap's array, of filter ids
    fmLocked,       \* FilterManager.lock is held
    fmClock,        \* time.Now()
    fmCount,        \* filters created so far (the next uuid)
    stream,         \* blockStream: the hashes pushed, oldest first; the
                    \* head is the last one
    fmRunPc,        \* FilterManager.Run: "top", "armed" (nextTimeoutFilter
                    \* returned), "select"
    fmRunFilter,    \* Run's filter, or "nil"
    lastCall,       \* history: the FilterManager call of the last step and
                    \* what it returned
    fmSeen          \* history: per filter, how many hashes had been pushed
                    \* when it was created or last polled

serverVars == <<hostConnected, pending, peers, dialPc, slots, dialI, dialSubQ,
                dialSubPc, watchSubQ, watcherPc, joinWatchers, pc, addrStr,
                target, timeout, result, sawOk, arrived, arrivedFresh,
                closePc>>
queueVars == <<dialQueue, dqClosed, tt>>
histVars == <<qStamp, qClock, lastOp>>
busVars == <<subState, sinks, subOut, runPc, runObj, readPc, pubPc, pubEv,
             pubIdx, nPub, due, recv>>
discVars == <<rt, discPeers, peerstore, discPc, lastInsert, lastResp>>
lookupVars == <<discRunPc, discTarget, lastSync, lastLookup>>
lockVars == <<peersLock, joinWatchersLock, waiters, wPc, wPeer, wResult,
              connPc, jwPc, lastAccess>>
filterVars == <<fmFilters, fmTimer, fmLocked, fmClock, fmCount, stream,
                fmRunPc, fmRunFilter, lastCall, fmSeen>>
moreVars == <<lockVars, filterVars>>
auxVars == <<lastDisconnect, busVars, discVars, lookupVars, moreVars>>
vars == <<serverVars, queueVars, histVars, auxVars>>

\* ------------------------------------------------------------ dial queue
Min(a, b) == IF a < b THEN a ELSE b

Task(id, prio) == [id |-> id, priority |-> prio]

QueuedIds(q) == {q[i].id : i \in 1..Len(q)}

IndexOf(q, id) == CHOOSE i \in 1..Len(q) : q[i].id = id

RemoveAt(q, i) == [j \in 1..(Len(q) - 1) |-> IF j < i THEN q[j] ELSE q[j + 1]]

\* Mutant of DialQueueAdd: every add pushes a new task.
DialQueueAddPushes(q, id, prio) == Append(q, Task(id, prio))

\* add: a queued identity keeps its task and takes the lower priority.
DialQueueAdd(q, id, prio) ==
    IF id \in QueuedIds(q)
    THEN [q EXCEPT ![IndexOf(q, id)].priority = Min(@, prio)]
    ELSE Append(q, Task(id, prio))

\* Mutant of PopIndex: lowest priority value, no order among equals.
PopIndexLastAmongEquals(q) ==
    CHOOSE i \in 1..Len(q) :
        \A j \in 1..Len(q) :
            \/ q[j].priority > q[i].priority
            \/ q[j].priority = q[i].priority /\ j <= i

\* The task pop returns: lowest priority value, first added among equals.
PopIndex(q) ==
    CHOOSE i \in 1..Len(q) :
        \A j \in 1..Len(q) :
            \/ q[j].priority > q[i].priority
            \/ q[j].priority = q[i].priority /\ j >= i

\* Mutant of DialQueuePop: the task is returned and left in the queue.
DialQueuePopKeepsTask(q) == q

DialQueuePop(q) == RemoveAt(q, PopIndex(q))

\* Mutant of DialQueueDel: the oldest task is dropped, whatever its identity.
DialQueueDelDropsHead(q, id) == IF q = <<>> THEN q ELSE Tail(q)

DialQueueDel(q, id) ==
    IF id \in QueuedIds(q) THEN RemoveAt(q, IndexOf(q, id)) ELSE q

\* ------------------------------------------------------------ addresses
\* An address string, split at "/": "/ip4/h/p2p/p1" is <<"", "ip4", "h", "p2p", "p1">>.
Hosts == {"h"}

AddrStrings ==
    { <<"", "ip4", "h", "p2p", "p1">>,
      <<"", "ip4", "h", "p2p", "p2">>,
      <<"", "p2p", "p1">>,
      <<>>,
      <<"ip4", "h", "p2p", "p1">>,
      <<"", "ip4", "h">>,
      <<"", "ip4", "h", "p2p", "zz">>,
      <<"", "ip4", "h", "p2p">> }

ParseError == [err |-> TRUE, comps |-> <<>>]

ValidValue(proto, value) ==
    \/ proto = "ip4" /\ value \in Hosts
    \/ proto = "p2p" /\ value \in Peers \cup DiscIds

RECURSIVE ParseComponents(_)
ParseComponents(segs) ==
    IF segs = <<>> THEN [err |-> FALSE, comps |-> <<>>]
    ELSE IF Len(segs) < 2 \/ ~ValidValue(segs[1], segs[2]) THEN ParseError
    ELSE LET rest == ParseComponents(SubSeq(segs, 3, Len(segs)))
         IN  IF rest.err THEN ParseError
             ELSE [err |-> FALSE,
                   comps |-> <<[proto |-> segs[1], value |-> segs[2]]>> \o rest.comps]

\* multiaddr.NewMultiaddr: the string starts with "/" and holds protocol/value pairs.
NewMultiaddr(s) ==
    IF s = <<>> \/ s[1] # "" \/ Len(s) = 1 THEN ParseError ELSE ParseComponents(Tail(s))

AddrInfoError == [err |-> TRUE, ID |-> "none", Addrs |-> <<>>]

\* peer.AddrInfoFromP2pAddr: the last component names the identity.
AddrInfoFromP2pAddr(m) ==
    IF m = <<>> \/ m[Len(m)].proto # "p2p" THEN AddrInfoError
    ELSE [err |-> FALSE, ID |-> m[Len(m)].value, Addrs |-> SubSeq(m, 1, Len(m) - 1)]

StringToAddrInfo(s) ==
    LET addr0 == NewMultiaddr(s)
    IN  IF addr0.err THEN AddrInfoError ELSE AddrInfoFromP2pAddr(addr0.comps)

\* AddrInfoToString: the one address, then "/p2p/" and the identity.
AddrInfoToString(info) ==
    <<"">> \o <<info.Addrs[1].proto, info.Addrs[1].value>> \o <<"p2p", info.ID>>

\* The values of the discovery histories when the last step was no call.
NoInsert == [id |-> "none", added |-> FALSE, err |-> "nil"]

NoResp == [status |-> "none", from |-> "none", key |-> "", count |-> 0,
           limit |-> 0, target |-> "", ids |-> <<>>, nodes |-> <<>>]

NoSync == [PeerID |-> "none", Type |-> "none"]

\* The uuids of the filters, in the order they are drawn.
FilterIdSeq == <<"f1", "f2", "f3", "f4", "f5">>

FilterIds == {FilterIdSeq[i] : i \in 1..Len(FilterIdSeq)}

\* The hashes of the chain's headers, in the order they arrive.
HashSeq == <<"h0", "h1", "h2", "h3">>

HashOf(n) == HashSeq[n + 1]

\* A Filter that was not created.
NoFilter == [installed |-> FALSE, kind |-> "none", block |-> 0, index |-> -1,
             timestamp |-> 0]

NoCall == [op |-> "none", id |-> "nil", res |-> <<>>, err |-> "nil"]

\* The callers of Join that wait for the same peers at the same time.
Joiners == {"j1", "j2"}

\* addPeer / delPeer is not between its Lock and its write.
NoWrite == [op |-> "none", id |-> "none"]

\* The value of lastAccess when the last step touched no table, and an access
\* of a table by a goroutine while lock is held by holder.
NoAccess == [proc |-> "none", table |-> "none", kind |-> "none", locked |-> TRUE]

Access(proc, table, kind, holder) ==
    [proc |-> proc, table |-> table, kind |-> kind, locked |-> holder = proc]

NoLookup == [target |-> "none", status |-> "none", nodes |-> <<>>]

\* ------------------------------------------------------------ events
\* during is history: the callers that were inside a Join for the identity when
\* the event was published.
PeerEvent(id, type) == [PeerID |-> id, Type |-> type, during |-> {}]

\* An event in the event bus, with its number in the order of publication
\* (history), and the value of a variable that holds no event.
NoEvent == [ev |-> PeerEvent("none", "none"), n |-> 0]

\* The kinds runDial's handler forwards to notifyCh.
DialKinds == {PeerEventConnected, PeerEventConnectedFailed, PeerEventDisconnected}
\* The kinds the join watcher resolves a waiter on.
WatchKinds == {PeerEventConnected, PeerEventConnectedFailed, PeerEventDialConnectedNode}

\* A caller inside JoinAddr whose deadline has not elapsed.
InCall(c) == pc[c] \in {"added", "waiting"}

DuringCallOf(id) == {c \in Callers : InCall(c) /\ target[c] = id}

CanEmit ==
    /\ dialSubPc = "run" => Len(dialSubQ) < MaxEvents
    /\ watcherPc # "closed" => Len(watchSubQ) < MaxEvents

\* emitEvent: every open subscription gets the event.
emitEvent(ev) ==
    /\ CanEmit
    /\ dialSubQ' = IF dialSubPc = "run" THEN Append(dialSubQ, ev.Type) ELSE dialSubQ
    /\ watchSubQ' = IF watcherPc # "closed"
                    THEN Append(watchSubQ, [ev EXCEPT !.during = DuringCallOf(ev.PeerID)])
                    ELSE watchSubQ
    /\ UNCHANGED sawOk

NoEmit == UNCHANGED <<dialSubQ, watchSubQ, sawOk>>

\* ------------------------------------------------------------ peer table
numPeers == Cardinality(peers)

numPending == Cardinality(pending)

\* The connected check is missing: no peer counts as connected.
isConnectedNever(id) == FALSE

isConnected(id) == id \in hostConnected

addPeer(id) == peers' = peers \cup {id}

delPeer(id) == peers' = peers \ {id}

\* ------------------------------------------------------------ transport and handshake
\* A remote peer dials this host: the transport reports the connection and
\* the handshake starts.
InboundConnect(p) ==
    /\ closePc = "open"
    /\ p \notin hostConnected
    /\ hostConnected' = hostConnected \cup {p}
    /\ pending' = pending \cup {p}
    /\ NoEmit
    /\ UNCHANGED <<peers, dialPc, slots, dialI, dialSubPc, watcherPc,
                   joinWatchers, pc, addrStr, target, timeout, result, arrived,
                   arrivedFresh, closePc, queueVars, histVars, auxVars>>

HandshakeOk(p) ==
    /\ closePc = "open"
    /\ p \in pending
    /\ p \in hostConnected
    /\ pending' = pending \ {p}
    /\ addPeer(p)
    /\ emitEvent(PeerEvent(p, PeerEventConnected))
    /\ UNCHANGED <<hostConnected, dialPc, slots, dialI, dialSubPc, watcherPc,
                   joinWatchers, pc, addrStr, target, timeout, result, arrived,
                   arrivedFresh, closePc, queueVars, histVars, auxVars>>

HandshakeFail(p) ==
    /\ p \in pending
    /\ pending' = pending \ {p}
    /\ hostConnected' = hostConnected \ {p}
    /\ emitEvent(PeerEvent(p, PeerEventConnectedFailed))
    /\ UNCHANGED <<peers, dialPc, slots, dialI, dialSubPc, watcherPc,
                   joinWatchers, pc, addrStr, target, timeout, result, arrived,
                   arrivedFresh, closePc, queueVars, histVars, auxVars>>

PeerDisconnected(p) ==
    /\ p \in peers
    /\ hostConnected' = hostConnected \ {p}
    /\ delPeer(p)
    /\ emitEvent(PeerEvent(p, PeerEventDisconnected))
    /\ UNCHANGED <<pending, dialPc, slots, dialI, dialSubPc, watcherPc,
                   joinWatchers, pc, addrStr, target, timeout, result, arrived,
                   arrivedFresh, closePc, queueVars, histVars, auxVars>>

\* ------------------------------------------------------------ runDial
SlotsFor(connected, inHandshake) ==
    IF MaxPeers - (connected + inHandshake) < 0 THEN 0
    ELSE MaxPeers - (connected + inHandshake)

\* The head of the outer loop: slots is computed once for the whole round.
DialComputeSlots ==
    /\ dialPc = "slots"
    /\ slots' = SlotsFor(numPeers, numPending)
    /\ dialI' = 0
    /\ dialPc' = IF slots' > 0 THEN "pop" ELSE "wait"
    /\ NoEmit
    /\ UNCHANGED <<hostConnected, pending, peers, dialSubPc, watcherPc,
                   joinWatchers, pc, addrStr, target, timeout, result, arrived,
                   arrivedFresh, closePc, queueVars, histVars, auxVars>>

\* Where the inner loop goes after an iteration.
DialLoopPc(i) == IF i < slots THEN "pop" ELSE "wait"

\* Mutant of DialPopNil: nil only ends the round.
DialPopNilEndsRound ==
    /\ dialPc = "pop"
    /\ dqClosed
    /\ tt' = NilTask
    /\ dialPc' = "wait"
    /\ NoEmit
    /\ UNCHANGED <<hostConnected, pending, peers, slots, dialI, dialSubPc,
                   watcherPc, joinWatchers, pc, addrStr, target, timeout,
                   result, arrived, arrivedFresh, closePc, dialQueue, dqClosed,
                   histVars, auxVars>>

\* pop returned nil: the queue is closed and runDial returns.
DialPopNil ==
    /\ dialPc = "pop"
    /\ dqClosed
    /\ tt' = NilTask
    /\ dialPc' = "done"
    /\ NoEmit
    /\ UNCHANGED <<hostConnected, pending, peers, slots, dialI, dialSubPc,
                   watcherPc, joinWatchers, pc, addrStr, target, timeout,
                   result, arrived, arrivedFresh, closePc, dialQueue, dqClosed,
                   histVars, auxVars>>

\* pop returned a task whose peer is connected already: only the event.
DialConnectedNode ==
    /\ dialPc = "pop"
    /\ ~dqClosed
    /\ dialQueue # <<>>
    /\ isConnected(dialQueue[PopIndex(dialQueue)].id)
    /\ tt' = dialQueue[PopIndex(dialQueue)]
    /\ dialQueue' = DialQueuePop(dialQueue)
    /\ emitEvent(PeerEvent(tt'.id, PeerEventDialConnectedNode))
    /\ dialI' = dialI + 1
    /\ dialPc' = DialLoopPc(dialI')
    /\ UNCHANGED <<hostConnected, pending, peers, slots, dialSubPc, watcherPc,
                   joinWatchers, pc, addrStr, target, timeout, result, arrived,
                   arrivedFresh, closePc, dqClosed, histVars, auxVars>>

\* pop returned a task and host.Connect is called: it connects (the transport
\* reports the connection and the handshake starts) or fails (logged only).
DialConnect(ok) ==
    /\ dialPc = "pop"
    /\ ~dqClosed
    /\ dialQueue # <<>>
    /\ ~isConnected(dialQueue[PopIndex(dialQueue)].id)
    /\ tt' = dialQueue[PopIndex(dialQueue)]
    /\ dialQueue' = DialQueuePop(dialQueue)
    /\ IF ok
       THEN /\ closePc = "open"
            /\ hostConnected' = hostConnected \cup {tt'.id}
            /\ pending' = pending \cup {tt'.id}
       ELSE UNCHANGED <<hostConnected, pending>>
    /\ NoEmit
    /\ dialI' = dialI + 1
    /\ dialPc' = DialLoopPc(dialI')
    /\ UNCHANGED <<peers, slots, dialSubPc, watcherPc, joinWatchers, pc,
                   addrStr, target, timeout, result, arrived, arrivedFresh,
                   closePc, dqClosed, histVars, auxVars>>

\* The SubscribeFn goroutine hands one event to runDial's handler: the send on
\* notifyCh is taken only if runDial is waiting in its select.
DialNotify ==
    /\ dialSubPc = "run"
    /\ dialSubQ # <<>>
    /\ dialSubQ' = Tail(dialSubQ)
    /\ dialPc' = IF Head(dialSubQ) \in DialKinds /\ dialPc = "wait" THEN "slots" ELSE dialPc
    /\ UNCHANGED <<hostConnected, pending, peers, slots, dialI, dialSubPc,
                   watchSubQ, watcherPc, joinWatchers, pc, addrStr, target,
                   timeout, result, sawOk, arrived, arrivedFresh, closePc,
                   queueVars, histVars, auxVars>>

\* runDial's select takes closeCh.
DialCloseCh ==
    /\ dialPc = "wait"
    /\ closePc = "closed"
    /\ dialPc' = "done"
    /\ NoEmit
    /\ UNCHANGED <<hostConnected, pending, peers, slots, dialI, dialSubPc,
                   watcherPc, joinWatchers, pc, addrStr, target, timeout,
                   result, arrived, arrivedFresh, closePc, queueVars, histVars, auxVars>>

\* The SubscribeFn goroutine's select takes closeCh.
DialSubExit ==
    /\ dialSubPc = "run"
    /\ closePc = "closed"
    /\ dialSubPc' = "closed"
    /\ dialSubQ' = <<>>
    /\ UNCHANGED <<hostConnected, pending, peers, dialPc, slots, dialI,
                   watchSubQ, watcherPc, joinWatchers, pc, addrStr, target,
                   timeout, result, sawOk, arrived, arrivedFresh, closePc,
                   queueVars, histVars, auxVars>>

\* ------------------------------------------------------------ Close
\* Server.Close, one statement at a time: host.Close(), dialQueue.Close(),
\* close(closeCh).
CloseNext(at) ==
    CASE at = "open" -> "host"
      [] at = "host" -> "queue"
      [] OTHER -> "closed"

ServerClose ==
    /\ closePc # "closed"
    /\ closePc' = CloseNext(closePc)
    /\ dqClosed' = (dqClosed \/ closePc' = "queue")
    /\ NoEmit
    /\ UNCHANGED <<hostConnected, pending, peers, dialPc, slots, dialI,
                   dialSubPc, watcherPc, joinWatchers, pc, addrStr, target,
                   timeout, result, arrived, arrivedFresh, dialQueue, tt,
                   histVars, auxVars>>

\* ------------------------------------------------------------ Join
\* Mutant of JoinNextPc: the timeout == 0 return is missing.
JoinNextPcAlwaysWatch(t) == "added"

\* Join after the enqueue: timeout == 0 returns, any other timeout goes to watch.
JoinNextPc(t) == IF t = 0 THEN "done" ELSE "added"

\* Mutant of JoinAddrFails: the errors are not looked at.
JoinAddrFailsNever(addr1) == FALSE

\* The two error checks of JoinAddr.
JoinAddrFails(addr1) == addr1.err

\* JoinAddr up to the enqueue in Join: a string that does not parse returns
\* the error before anything is touched.
JoinAddr(c, s, t) ==
    /\ pc[c] = "idle"
    /\ addrStr' = [addrStr EXCEPT ![c] = s]
    /\ timeout' = [timeout EXCEPT ![c] = t]
    /\ LET addr1 == StringToAddrInfo(s)
       IN  IF JoinAddrFails(addr1)
           THEN /\ pc' = [pc EXCEPT ![c] = "done"]
                /\ result' = [result EXCEPT ![c] = "parseError"]
                /\ UNCHANGED <<target, dialQueue>>
           ELSE /\ target' = [target EXCEPT ![c] = addr1.ID]
                /\ dialQueue' = DialQueueAdd(dialQueue, addr1.ID, JoinPriority)
                /\ pc' = [pc EXCEPT ![c] = JoinNextPc(t)]
                /\ result' = [result EXCEPT ![c] =
                                  IF JoinNextPc(t) = "done" THEN "ok" ELSE @]
    /\ NoEmit
    /\ UNCHANGED <<hostConnected, pending, peers, dialPc, slots, dialI,
                   dialSubPc, watcherPc, joinWatchers, arrived, arrivedFresh,
                   closePc, dqClosed, tt, histVars, auxVars>>

\* joinWatchersLock is free unless the join watcher sits in its send holding it.
joinWatchersLockFree == watcherPc # "blocked"

\* watch: the waiter is registered under the lock, then the select is entered.
JoinWatch(c) ==
    /\ pc[c] = "added"
    /\ joinWatchersLockFree
    /\ joinWatchers' = [joinWatchers EXCEPT ![target[c]] = c]
    /\ pc' = [pc EXCEPT ![c] = "waiting"]
    /\ NoEmit
    /\ UNCHANGED <<hostConnected, pending, peers, dialPc, slots, dialI,
                   dialSubPc, watcherPc, addrStr, target, timeout, result,
                   arrived, arrivedFresh, closePc, queueVars, histVars, auxVars>>

\* time.After fires while nothing was sent on ch: the select takes the timeout.
JoinTimerFire(c) ==
    /\ pc[c] = "waiting"
    /\ pc' = [pc EXCEPT ![c] = "timedout"]
    /\ NoEmit
    /\ UNCHANGED <<hostConnected, pending, peers, dialPc, slots, dialI,
                   dialSubPc, watcherPc, joinWatchers, addrStr, target, timeout,
                   result, arrived, arrivedFresh, closePc, queueVars, histVars, auxVars>>

\* Mutant of JoinTimeoutReturn: the entry is left in the table.
JoinTimeoutReturnKeepsWaiter(c) ==
    /\ pc[c] = "timedout"
    /\ joinWatchersLockFree
    /\ UNCHANGED joinWatchers
    /\ pc' = [pc EXCEPT ![c] = "done"]
    /\ result' = [result EXCEPT ![c] = "timeout"]
    /\ NoEmit
    /\ UNCHANGED <<hostConnected, pending, peers, dialPc, slots, dialI,
                   dialSubPc, watcherPc, addrStr, target, timeout, arrived,
                   arrivedFresh, closePc, queueVars, histVars, auxVars>>

\* The timeout branch: the entry of the identity is deleted under the lock.
JoinTimeoutReturn(c) ==
    /\ pc[c] = "timedout"
    /\ joinWatchersLockFree
    /\ joinWatchers' = [joinWatchers EXCEPT ![target[c]] = NoCaller]
    /\ pc' = [pc EXCEPT ![c] = "done"]
    /\ result' = [result EXCEPT ![c] = "timeout"]
    /\ NoEmit
    /\ UNCHANGED <<hostConnected, pending, peers, dialPc, slots, dialI,
                   dialSubPc, watcherPc, addrStr, target, timeout, arrived,
                   arrivedFresh, closePc, queueVars, histVars, auxVars>>

\* ------------------------------------------------------------ runJoinWatcher
\* What the watcher sends on the waiter's channel.
WatcherSends(evnt) == "ok"

\* One event read by the join watcher. With a waiter of the identity it sends
\* on the waiter's unbuffered channel while holding the lock: the send is
\* taken if the waiter is in its select, and otherwise never returns.
WatcherStep ==
    /\ watcherPc = "run"
    /\ watchSubQ # <<>>
    /\ watchSubQ' = Tail(watchSubQ)
    /\ LET evnt == Head(watchSubQ)
           w == joinWatchers[evnt.PeerID]
           firstFor(c) == /\ pc[c] = "waiting"
                          /\ arrived[c] = "none"
                          /\ target[c] = evnt.PeerID
                          /\ evnt.Type \in WatchKinds
       IN  /\ sawOk' = [c \in Callers |->
                   \/ sawOk[c]
                   \/ /\ InCall(c)
                      /\ c \in evnt.during
                      /\ evnt.Type \in {PeerEventConnected, PeerEventDialConnectedNode}]
           /\ arrived' = [c \in Callers |-> IF firstFor(c) THEN evnt.Type ELSE arrived[c]]
           /\ arrivedFresh' = [c \in Callers |->
                   IF firstFor(c) THEN c \in evnt.during ELSE arrivedFresh[c]]
           /\ IF evnt.Type \notin WatchKinds \/ w = NoCaller
              THEN UNCHANGED <<pc, result, joinWatchers, watcherPc>>
              ELSE IF pc[w] = "waiting"
              THEN /\ pc' = [pc EXCEPT ![w] = "done"]
                   /\ result' = [result EXCEPT ![w] = WatcherSends(evnt)]
                   /\ joinWatchers' = [joinWatchers EXCEPT ![evnt.PeerID] = NoCaller]
                   /\ UNCHANGED watcherPc
              ELSE /\ watcherPc' = "blocked"
                   /\ UNCHANGED <<pc, result, joinWatchers>>
    /\ UNCHANGED <<hostConnected, pending, peers, dialPc, slots, dialI,
                   dialSubQ, dialSubPc, addrStr, target, timeout, closePc,
                   queueVars, histVars, auxVars>>

\* The watcher's select takes closeCh.
WatcherExit ==
    /\ watcherPc = "run"
    /\ closePc = "closed"
    /\ watcherPc' = "closed"
    /\ watchSubQ' = <<>>
    /\ UNCHANGED <<hostConnected, pending, peers, dialPc, slots, dialI,
                   dialSubQ, dialSubPc, joinWatchers, pc, addrStr, target,
                   timeout, result, sawOk, arrived, arrivedFresh, closePc,
                   queueVars, histVars, auxVars>>

\* ------------------------------------------------------------ the server
Init ==
    /\ hostConnected = {}
    /\ pending = {}
    /\ peers = {}
    /\ dialQueue = <<>>
    /\ dqClosed = FALSE
    /\ dialPc = "slots"
    /\ slots = 0
    /\ dialI = 0
    /\ tt = NilTask
    /\ dialSubQ = <<>>
    /\ dialSubPc = "run"
    /\ watchSubQ = <<>>
    /\ watcherPc = "run"
    /\ joinWatchers = [p \in Peers |-> NoCaller]
    /\ pc = [c \in Callers |-> "idle"]
    /\ addrStr = [c \in Callers |-> <<>>]
    /\ target = [c \in Callers |-> "none"]
    /\ timeout = [c \in Callers |-> 0]
    /\ result = [c \in Callers |-> "none"]
    /\ sawOk = [c \in Callers |-> FALSE]
    /\ arrived = [c \in Callers |-> "none"]
    /\ arrivedFresh = [c \in Callers |-> FALSE]
    /\ closePc = "open"
    /\ qStamp = [i \in QIds |-> 0]
    /\ qClock = 0
    /\ lastOp = [op |-> "none", id |-> "none", priority |-> 0]
    /\ lastDisconnect = [peer |-> "none", closePeer |-> FALSE, flip |-> FALSE]
    /\ subState = [s \in Subs |-> "none"]
    /\ sinks = <<>>
    /\ subOut = [s \in Subs |-> <<>>]
    /\ runPc = [s \in Subs |-> "none"]
    /\ runObj = [s \in Subs |-> NoEvent]
    /\ readPc = [s \in Subs |-> "idle"]
    /\ pubPc = "idle"
    /\ pubEv = NoEvent
    /\ pubIdx = 0
    /\ nPub = 0
    /\ due = [s \in Subs |-> <<>>]
    /\ recv = [s \in Subs |-> <<>>]
    /\ rt = <<<<>>>>
    /\ discPeers = <<>>
    /\ peerstore = [p \in DiscIds |-> <<>>]
    /\ discPc = "run"
    /\ lastInsert = NoInsert
    /\ lastResp = NoResp
    /\ discRunPc = "idle"
    /\ discTarget = "none"
    /\ lastSync = NoSync
    /\ lastLookup = NoLookup
    /\ peersLock = "none"
    /\ joinWatchersLock = "none"
    /\ waiters = [p \in Peers |-> "none"]
    /\ wPc = [c \in Joiners |-> "idle"]
    /\ wPeer = [c \in Joiners |-> "none"]
    /\ wResult = [c \in Joiners |-> "none"]
    /\ connPc = NoWrite
    /\ jwPc = "idle"
    /\ lastAccess = NoAccess
    /\ fmFilters = [id \in FilterIds |-> NoFilter]
    /\ fmTimer = <<>>
    /\ fmLocked = FALSE
    /\ fmClock = 0
    /\ fmCount = 0
    /\ stream = <<HashOf(0)>>
    /\ fmRunPc = "top"
    /\ fmRunFilter = "nil"
    /\ lastCall = NoCall
    /\ fmSeen = [id \in FilterIds |-> 0]

Next ==
    \/ \E p \in Peers : InboundConnect(p)
    \/ \E p \in Peers : HandshakeOk(p)
    \/ \E p \in Peers : HandshakeFail(p)
    \/ \E p \in Peers : PeerDisconnected(p)
    \/ DialComputeSlots
    \/ DialPopNil
    \/ DialConnectedNode
    \/ \E ok \in BOOLEAN : DialConnect(ok)
    \/ DialNotify
    \/ DialCloseCh
    \/ DialSubExit
    \/ ServerClose
    \/ \E c \in Callers, s \in AddrStrings, t \in {0, 1} : JoinAddr(c, s, t)
    \/ \E c \in Callers : JoinWatch(c)
    \/ \E c \in Callers : JoinTimerFire(c)
    \/ \E c \in Callers : JoinTimeoutReturn(c)
    \/ WatcherStep
    \/ WatcherExit

Spec == Init /\ [][Next]_vars

\* ------------------------------------------------------------ the event bus
\* emitEvent, Subscribe and Subscription on their own: the bus keeps one
\* buffered channel per subscription and Emit sends to them one after the
\* other; Subscription.run forwards from that channel to the unbuffered s.ch,
\* which Get and GetCh read.
NotBus ==
    UNCHANGED <<serverVars, queueVars, histVars, lastDisconnect, discVars,
                lookupVars, moreVars>>

\* Subscribe: the bus registers the channel and the forwarder starts.
Subscribe(s) ==
    /\ subState[s] = "none"
    /\ pubPc = "idle"
    /\ subState' = [subState EXCEPT ![s] = "open"]
    /\ sinks' = Append(sinks, s)
    /\ runPc' = [runPc EXCEPT ![s] = "recv"]
    /\ UNCHANGED <<subOut, runObj, readPc, pubPc, pubEv, pubIdx, nPub, due, recv>>
    /\ NotBus

\* emitEvent enters Emit: the event counts as published for the subscriptions
\* registered now.
BusEmitBegin(id, type) ==
    /\ pubPc = "idle"
    /\ nPub < MaxPublish
    /\ nPub' = nPub + 1
    /\ pubPc' = "emit"
    /\ pubEv' = [ev |-> PeerEvent(id, type), n |-> nPub']
    /\ pubIdx' = 1
    /\ due' = [s \in Subs |->
                IF subState[s] = "open" THEN Append(due[s], pubEv') ELSE due[s]]
    /\ UNCHANGED <<subState, sinks, subOut, runPc, runObj, readPc, recv>>
    /\ NotBus

\* Mutant of ChanSend: the value goes to the front of the buffer.
ChanSendFront(q, v) == <<v>> \o q

\* A send on a buffered channel, and a receive from it.
ChanSend(q, v) == Append(q, v)

ChanRecv(q) == Head(q)

ChanRecvRest(q) == Tail(q)

\* Emit's loop: a send to the next subscription's channel, which waits while
\* the channel is full; what is sent to a closed subscription is drained.
BusEmitSend ==
    /\ pubPc = "emit"
    /\ pubIdx <= Len(sinks)
    /\ IF subState[sinks[pubIdx]] = "closed"
       THEN UNCHANGED subOut
       ELSE /\ Len(subOut[sinks[pubIdx]]) < SubBuffer
            /\ subOut' = [subOut EXCEPT ![sinks[pubIdx]] = ChanSend(@, pubEv)]
    /\ pubIdx' = pubIdx + 1
    /\ UNCHANGED <<subState, sinks, runPc, runObj, readPc, pubPc, pubEv, nPub,
                   due, recv>>
    /\ NotBus

\* Emit and emitEvent return.
BusEmitReturn ==
    /\ pubPc = "emit"
    /\ pubIdx > Len(sinks)
    /\ pubPc' = "idle"
    /\ pubEv' = NoEvent
    /\ pubIdx' = 0
    /\ UNCHANGED <<subState, sinks, subOut, runPc, runObj, readPc, nPub, due, recv>>
    /\ NotBus

\* run: evnt := <-s.sub.Out(); obj := evnt.(PeerEvent)
SubscriptionRunRecv(s) ==
    /\ runPc[s] = "recv"
    /\ subOut[s] # <<>>
    /\ runObj' = [runObj EXCEPT ![s] = ChanRecv(subOut[s])]
    /\ subOut' = [subOut EXCEPT ![s] = ChanRecvRest(@)]
    /\ runPc' = [runPc EXCEPT ![s] = "send"]
    /\ UNCHANGED <<subState, sinks, readPc, pubPc, pubEv, pubIdx, nPub, due, recv>>
    /\ NotBus

\* run on a closed subscription whose channel is empty: where Close has
\* closed the channel the receive yields nil and evnt.(PeerEvent) panics;
\* where the channel stays open the goroutine stays in the receive.
SubscriptionRunPanic(s) ==
    /\ runPc[s] = "recv"
    /\ subState[s] = "closed"
    /\ subOut[s] = <<>>
    /\ runPc' = [runPc EXCEPT ![s] = "panicked"]
    /\ UNCHANGED <<subState, sinks, subOut, runObj, readPc, pubPc, pubEv, pubIdx,
                   nPub, due, recv>>
    /\ NotBus

\* Get, or a receive from GetCh(): the subscriber waits on s.ch.
SubscriptionGet(s) ==
    /\ subState[s] # "none"
    /\ readPc[s] = "idle"
    /\ readPc' = [readPc EXCEPT ![s] = "get"]
    /\ UNCHANGED <<subState, sinks, subOut, runPc, runObj, pubPc, pubEv, pubIdx,
                   nPub, due, recv>>
    /\ NotBus

\* run: s.ch <- &obj meets the subscriber's receive; s.ch has no buffer.
SubscriptionRunSend(s) ==
    /\ runPc[s] = "send"
    /\ readPc[s] = "get"
    /\ recv' = [recv EXCEPT ![s] = Append(@, runObj[s])]
    /\ runObj' = [runObj EXCEPT ![s] = NoEvent]
    /\ runPc' = [runPc EXCEPT ![s] = "recv"]
    /\ readPc' = [readPc EXCEPT ![s] = "idle"]
    /\ UNCHANGED <<subState, sinks, subOut, pubPc, pubEv, pubIdx, nPub, due>>
    /\ NotBus

\* Subscription.Close, called by the subscriber or, once closeCh is closed,
\* by the goroutine of SubscribeFn: the bus drains the channel from now on
\* and sends no further event to it.
SubscriptionClose(s) ==
    /\ subState[s] = "open"
    /\ subState' = [subState EXCEPT ![s] = "closed"]
    /\ subOut' = [subOut EXCEPT ![s] = <<>>]
    /\ UNCHANGED <<sinks, runPc, runObj, readPc, pubPc, pubEv, pubIdx, nPub,
                   due, recv>>
    /\ NotBus

\* The events published: about p1 and p2 in turn.
BusEvents(n) == {<<IF n % 2 = 1 THEN "p1" ELSE "p2", PeerEventConnected>>}

NextBus ==
    \/ \E s \in Subs : Subscribe(s)
    \/ \E e \in BusEvents(nPub + 1) : BusEmitBegin(e[1], e[2])
    \/ BusEmitSend
    \/ BusEmitReturn
    \/ \E s \in Subs : SubscriptionRunRecv(s)
    \/ \E s \in Subs : SubscriptionRunPanic(s)
    \/ \E s \in Subs : SubscriptionGet(s)
    \/ \E s \in Subs : SubscriptionRunSend(s)
    \/ \E s \in Subs : SubscriptionClose(s)

SpecBus == Init /\ [][NextBus]_vars

\* The subscribers that keep reading their handle; the others may stop.
DiligentSubs == {"s2"}

\* The goroutines of Emit and of Subscription.run are scheduled whenever they
\* can take a step, a send on s.ch completes once a receiver waits, and a
\* diligent subscriber calls Get again after every return.
SpecBusFair ==
    /\ SpecBus
    /\ WF_vars(BusEmitSend)
    /\ WF_vars(BusEmitReturn)
    /\ \A s \in Subs : WF_vars(SubscriptionRunRecv(s))
    /\ \A s \in Subs : WF_vars(SubscriptionRunSend(s))
    /\ \A s \in DiligentSubs : WF_vars(SubscriptionGet(s))

\* ------------------------------------------------------------ Disconnect
\* Mutant of ShouldClosePeer: the connectedness is not looked at.
ShouldClosePeerAlways(peer) == TRUE

\* Disconnect's test: s.host.Network().Connectedness(peer) == network.Connected.
ShouldClosePeer(peer) == peer \in hostConnected

\* host.Network().ClosePeer: the transport closes the connections of the peer.
ClosePeer(peer) == hostConnected' = hostConnected \ {peer}

Disconnect(peer) ==
    /\ IF ShouldClosePeer(peer)
       THEN ClosePeer(peer)
       ELSE UNCHANGED hostConnected
    /\ lastDisconnect' = [peer |-> peer, closePeer |-> ShouldClosePeer(peer),
                          flip |-> ~lastDisconnect.flip]
    /\ NoEmit
    /\ UNCHANGED <<pending, peers, dialPc, slots, dialI, dialSubPc, watcherPc,
                   joinWatchers, pc, addrStr, target, timeout, result, arrived,
                   arrivedFresh, closePc, queueVars, histVars, busVars,
                   discVars, lookupVars, moreVars>>

\* Disconnect called at any moment of the connections' life: remote peers
\* connect, handshakes end, connections drop, and the subscribers read the
\* events.
NextDisconnect ==
    \/ \E p \in Peers : InboundConnect(p)
    \/ \E p \in Peers : HandshakeOk(p)
    \/ \E p \in Peers : HandshakeFail(p)
    \/ \E p \in Peers : PeerDisconnected(p)
    \/ \E p \in Peers : Disconnect(p)
    \/ DialNotify
    \/ WatcherStep

SpecDisconnect == Init /\ [][NextDisconnect]_vars

\* ------------------------------------------------------------ the dial queue alone
\* The queue's operations called in any order, with the history the queue
\* claims are stated on: qStamp orders the queued tasks by their first add,
\* lastOp holds the last call and what it returned.
QAdd(id, prio) ==
    /\ id \in QueuedIds(dialQueue) \/ qClock < MaxQAdds
    /\ dialQueue' = DialQueueAdd(dialQueue, id, prio)
    /\ IF id \in QueuedIds(dialQueue)
       THEN UNCHANGED <<qStamp, qClock>>
       ELSE /\ qClock' = qClock + 1
            /\ qStamp' = [qStamp EXCEPT ![id] = qClock']
    /\ lastOp' = [op |-> "add", id |-> id, priority |-> prio]
    /\ UNCHANGED <<serverVars, auxVars, dqClosed, tt>>

\* pop: blocks on an open, empty queue; nil once the queue is closed.
QPop ==
    /\ dqClosed \/ dialQueue # <<>>
    /\ IF dqClosed
       THEN /\ lastOp' = [op |-> "pop", id |-> NilTask.id, priority |-> NilTask.priority]
            /\ UNCHANGED <<dialQueue, qStamp>>
       ELSE /\ lastOp' = [op |-> "pop", id |-> dialQueue[PopIndex(dialQueue)].id,
                          priority |-> dialQueue[PopIndex(dialQueue)].priority]
            /\ dialQueue' = DialQueuePop(dialQueue)
            /\ qStamp' = [qStamp EXCEPT ![lastOp'.id] = 0]
    /\ UNCHANGED <<serverVars, auxVars, dqClosed, tt, qClock>>

QDel(id) ==
    /\ dialQueue' = DialQueueDel(dialQueue, id)
    /\ qStamp' = [qStamp EXCEPT ![id] = 0]
    /\ lastOp' = [op |-> "del", id |-> id, priority |-> 0]
    /\ UNCHANGED <<serverVars, auxVars, dqClosed, tt, qClock>>

QClose ==
    /\ ~dqClosed
    /\ dqClosed' = TRUE
    /\ lastOp' = [op |-> "close", id |-> "none", priority |-> 0]
    /\ UNCHANGED <<serverVars, auxVars, dialQueue, tt, qStamp, qClock>>

\* routingTable.PeerAdded and PeerRemoved, as set by discovery.setup.
PeerAddedHook(p) == QAdd(p, DiscoveryPriority)

PeerRemovedHook(p) == QDel(p)

\* Join's enqueue.
JoinEnqueue(p) == QAdd(p, JoinPriority)

NextQueue ==
    \/ \E id \in QIds, prio \in QPriorities : QAdd(id, prio)
    \/ QPop
    \/ \E id \in QIds : QDel(id)
    \/ QClose
    \/ \E p \in Peers : PeerAddedHook(p)
    \/ \E p \in Peers : PeerRemovedHook(p)
    \/ \E p \in Peers : JoinEnqueue(p)

SpecQueue == Init /\ [][NextQueue]_vars

\* ------------------------------------------------------------ the dial loop and its queue
\* runDial with the tasks of Join and of discovery in the queue: peers connect
\* and disconnect, Join and the PeerAdded hook add tasks, the loop pops and
\* dials, and the subscribers read the events.
NextDial ==
    \/ \E p \in Peers : InboundConnect(p)
    \/ \E p \in Peers : HandshakeOk(p)
    \/ \E p \in Peers : HandshakeFail(p)
    \/ \E p \in Peers : PeerDisconnected(p)
    \/ \E p \in Peers : JoinEnqueue(p)
    \/ \E p \in Peers : PeerAddedHook(p)
    \/ DialComputeSlots
    \/ DialConnectedNode
    \/ \E ok \in BOOLEAN : DialConnect(ok)
    \/ DialNotify
    \/ WatcherStep

SpecDial == Init /\ [][NextDial]_vars

\* The goroutines are scheduled: runDial, the goroutine that hands events to
\* its handler, and the join watcher take their steps; what the peers and the
\* callers do is left open.
SpecDialFair ==
    /\ SpecDial
    /\ WF_vars(DialComputeSlots)
    /\ WF_vars(DialConnectedNode)
    /\ WF_vars(\E ok \in BOOLEAN : DialConnect(ok))
    /\ WF_vars(DialNotify)
    /\ WF_vars(WatcherStep)

\* ------------------------------------------------------------ discovery
\* The routing table of the discovery service (kb.RoutingTable, created by
\* discovery.setup with buckets of defaultBucketSize entries), the goroutine of
\* syncConnectedPeers that inserts the peers of the events it reads, and the
\* FindPeers responder.  Keys are numbers of KeyBits bits.

\* kb.ConvertPeerID: the key of an identity (a hash of the identity's bytes).
PeerKeys ==
    ("self" :> 5) @@ ("p1" :> 1) @@ ("p2" :> 2) @@ ("p3" :> 3) @@ ("p4" :> 4)

ConvertPeerID(id) == PeerKeys[id]

\* peer.ID.String: the text form of an identity.
String(id) == "Qm" \o id

\* The key strings of FindPeers requests: none, and free strings.
ReqKeys == {"", "k1", "k2"}

\* kb.ConvertKey: the key of a string (a hash of the string's bytes, which is
\* not the key of the identity the string may name).
StringKeys ==
    ("" :> 5) @@ ("k1" :> 1) @@ ("k2" :> 4) @@ ("Qmp1" :> 6) @@ ("Qmp2" :> 0)
    @@ ("Qmp3" :> 7) @@ ("Qmp4" :> 2)

ConvertKey(str) == StringKeys[str]

\* The XOR of two keys, and the number of leading bits two keys share.
RECURSIVE Xor(_, _)
Xor(a, b) ==
    IF a = 0 /\ b = 0 THEN 0
    ELSE ((a + b) % 2) + 2 * Xor(a \div 2, b \div 2)

RECURSIVE BitLen(_)
BitLen(d) == IF d = 0 THEN 0 ELSE 1 + BitLen(d \div 2)

CommonPrefixLen(a, b) == KeyBits - BitLen(Xor(a, b))

\* The bucket an identity belongs to by its distance to the local identity.
Cpl(id) == CommonPrefixLen(ConvertPeerID(id), ConvertPeerID(LocalID))

Range(q) == {q[i] : i \in 1..Len(q)}

TablePeers(buckets) == UNION {Range(buckets[i]) : i \in 1..Len(buckets)}

\* The table keeps the buckets it needs: the last one holds every identity
\* that shares at least Len(buckets) - 1 leading bits with the local key.
bucketIdForPeer(buckets, id) == Min(Cpl(id), Len(buckets) - 1) + 1

\* The last bucket is split: the identities that share more bits move to a
\* new last bucket, again while that one is full.
RECURSIVE nextBucket(_)
nextBucket(buckets) ==
    LET n == Len(buckets)
        stay == SelectSeq(buckets[n], LAMBDA id : Cpl(id) <= n - 1)
        move == SelectSeq(buckets[n], LAMBDA id : Cpl(id) > n - 1)
        split == SubSeq(buckets, 1, n - 1) \o <<stay, move>>
    IN  IF Len(move) >= defaultBucketSize THEN nextBucket(split) ELSE split

InsertResult(buckets, added, err) == [buckets |-> buckets, added |-> added, err |-> err]

PushFront(buckets, i, id) == [buckets EXCEPT ![i] = <<id>> \o @]

\* A bucket of defaultBucketSize entries takes the identity all the same.
BucketHasRoomAlways(bucket) == TRUE

\* A bucket takes another identity while it holds less than defaultBucketSize.
BucketHasRoom(bucket) == Len(bucket) < defaultBucketSize

\* TryAddPeer(id, false, false): a known identity is not added again; a new
\* one is added to its bucket if there is room, after splitting the last
\* bucket if need be; no entry is replaceable, so a full bucket rejects it.
TryAddPeer(buckets, id) ==
    LET i == bucketIdForPeer(buckets, id)
        unfolded == nextBucket(buckets)
        j == bucketIdForPeer(unfolded, id)
    IN  IF id \in Range(buckets[i]) THEN InsertResult(buckets, FALSE, "nil")
        ELSE IF BucketHasRoom(buckets[i])
        THEN InsertResult(PushFront(buckets, i, id), TRUE, "nil")
        ELSE IF i = Len(buckets)
        THEN IF BucketHasRoom(unfolded[j])
             THEN InsertResult(PushFront(unfolded, j, id), TRUE, "nil")
             ELSE InsertResult(unfolded, FALSE, "ErrPeerRejectedNoCapacity")
        ELSE InsertResult(buckets, FALSE, "ErrPeerRejectedNoCapacity")

\* After a removal the table drops an empty last bucket, and replaces an
\* empty bucket before the last by the last.
RECURSIVE TrimBuckets(_)
TrimBuckets(buckets) ==
    LET n == Len(buckets)
    IN  IF n > 1 /\ buckets[n] = <<>> THEN TrimBuckets(SubSeq(buckets, 1, n - 1))
        ELSE IF n >= 2 /\ buckets[n - 1] = <<>>
        THEN TrimBuckets(SubSeq(buckets, 1, n - 2) \o <<buckets[n]>>)
        ELSE buckets

RemovePeer(buckets, id) ==
    LET i == bucketIdForPeer(buckets, id)
    IN  IF id \notin Range(buckets[i]) THEN buckets
        ELSE TrimBuckets([buckets EXCEPT ![i] = SelectSeq(@, LAMBDA x : x # id)])

\* Concatenation of the buckets from..to, in that order.
RECURSIVE BucketsUpTo(_, _, _)
BucketsUpTo(buckets, from, to) ==
    IF from > to THEN <<>> ELSE buckets[from] \o BucketsUpTo(buckets, from + 1, to)

\* The buckets below i, from i - 1 downwards, taken while fewer than count
\* identities are gathered.
RECURSIVE GatherDown(_, _, _, _)
GatherDown(buckets, i, count, got) ==
    IF i < 1 \/ Len(got) >= count THEN got
    ELSE GatherDown(buckets, i - 1, count, got \o buckets[i])

Distance(id, key) == Xor(ConvertPeerID(id), key)

\* NearestPeers(key, count): the identities of the key's bucket, then of every
\* later bucket and of the earlier ones while fewer than count are gathered;
\* sorted by distance to the key and cut to count.
NearestPeers(buckets, key, count) ==
    LET i == Min(CommonPrefixLen(key, ConvertPeerID(LocalID)), Len(buckets) - 1) + 1
        own == buckets[i]
        right == IF Len(own) < count
                 THEN own \o BucketsUpTo(buckets, i + 1, Len(buckets)) ELSE own
        all == GatherDown(buckets, i - 1, count, right)
        sorted == SortSeq(all, LAMBDA x, y : Distance(x, key) < Distance(y, key))
    IN  IF count < Len(sorted) THEN SubSeq(sorted, 1, count) ELSE sorted

\* FindPeers keeps every identity, the requester too.
KeepsRequester(id, from) == TRUE

\* FindPeers: "do not include himself".
NotRequester(id, from) == id # from

\* The identities FindPeers answers with: the nearest to the key, without the
\* requester.
NearestTo(buckets, str, count, from) ==
    SelectSeq(NearestPeers(buckets, ConvertKey(str), count),
              LAMBDA id : NotRequester(id, from))

\* host.Peerstore().PeerInfo.
PeerInfo(id) == [ID |-> id, Addrs |-> peerstore[id]]

\* AddrInfoToString panics ("Not supported") unless there is one address.
NotSupported(info) == Len(info.Addrs) # 1

\* The address the transport knows a peer by.
AddrOf(id) == [proto |-> "ip4", value |-> "h"]

NotDisc ==
    UNCHANGED <<serverVars, histVars, dqClosed, tt, lastDisconnect, busVars,
                lookupVars, moreVars>>

\* lastInsert and lastResp hold the result of the step that was taken, if it
\* was an insertion or a request.
NoResult == lastInsert' = NoInsert /\ lastResp' = NoResp

\* The node runs and answers no request at the moment.
DiscReady == discPc = "run" /\ lastResp.status = "none"

\* The address book forgets the address of a peer when its time to live is
\* over.
PeerstoreExpire(id) ==
    /\ DiscReady
    /\ peerstore[id] # <<>>
    /\ peerstore' = [peerstore EXCEPT ![id] = <<>>]
    /\ NotDisc
    /\ NoResult
    /\ UNCHANGED <<dialQueue, rt, discPeers, discPc>>

\* The routing table's PeerAdded hook did not run: no dial task is added.
PeerAddedNoTask(q, id) == q

\* The routing table's PeerAdded hook: a dial task of the discovery priority.
PeerAdded(q, id) == DialQueueAdd(q, id, DiscoveryPriority)

\* The body of syncConnectedPeers' loop for one event, whatever its kind:
\* TryAddPeer (with the PeerAdded hook), a panic on its error, the peer
\* appended to discovery.peers.
SyncHandle(peerID) ==
    LET r == TryAddPeer(rt, peerID)
    IN  /\ rt' = r.buckets
        /\ lastInsert' = [id |-> peerID, added |-> r.added, err |-> r.err]
        /\ dialQueue' = IF r.added THEN PeerAdded(dialQueue, peerID) ELSE dialQueue
        /\ IF r.err # "nil"
           THEN discPc' = "panicked" /\ UNCHANGED discPeers
           ELSE discPeers' = Append(discPeers, peerID) /\ UNCHANGED discPc

\* A peer connects, the transport stores its address, and the goroutine of
\* syncConnectedPeers handles the event: TryAddPeer (with the PeerAdded hook,
\* which adds a dial task), a panic on its error, the peer appended to
\* discovery.peers.
SyncConnectedPeer(peerID) ==
    /\ DiscReady
    /\ Len(discPeers) < MaxDiscEvents
    /\ peerstore' = [peerstore EXCEPT ![peerID] = <<AddrOf(peerID)>>]
    /\ SyncHandle(peerID)
    /\ lastResp' = NoResp
    /\ NotDisc

\* The routing table's PeerRemoved hook did not run: the dial task stays.
PeerRemovedNoCancel(q, id) == q

\* The routing table's PeerRemoved hook: the dial task of the identity is
\* deleted.
PeerRemoved(q, id) == DialQueueDel(q, id)

\* The routing table's removal (with the PeerRemoved hook, which cancels the
\* dial task).
RoutingTableRemove(id) ==
    /\ DiscReady
    /\ id \in TablePeers(rt)
    /\ rt' = RemovePeer(rt, id)
    /\ dialQueue' = PeerRemoved(dialQueue, id)
    /\ NotDisc
    /\ NoResult
    /\ UNCHANGED <<discPeers, peerstore, discPc>>

\* The counts of FindPeers requests.
ReqCounts == {0, 2, 17}

MaxFindPeers == 16

\* FindPeers: the count is cut to 16, an empty key becomes the requester's
\* text form, and the answer holds the address strings of the nearest
\* identities without the requester; AddrInfoToString panics on an identity
\* that has not exactly one address.
FindPeers(from, key, count) ==
    /\ DiscReady
    /\ LET limit == IF count > MaxFindPeers THEN MaxFindPeers ELSE count
           str == IF key = "" THEN String(from) ELSE key
           ids == NearestTo(rt, str, limit, from)
           panics == \E i \in 1..Len(ids) : NotSupported(PeerInfo(ids[i]))
       IN  /\ lastResp' = [status |-> IF panics THEN "panic" ELSE "ok",
                           from |-> from, key |-> key, count |-> count,
                           limit |-> limit, target |-> str,
                           ids |-> ids,
                           nodes |-> IF panics THEN <<>>
                                     ELSE [i \in 1..Len(ids) |->
                                              AddrInfoToString(PeerInfo(ids[i]))]]
           /\ discPc' = IF panics THEN "panicked" ELSE "run"
    /\ lastInsert' = NoInsert
    /\ NotDisc
    /\ UNCHANGED <<dialQueue, rt, discPeers, peerstore>>

\* The response is sent.
FindPeersReturn ==
    /\ discPc = "run"
    /\ lastResp.status = "ok"
    /\ NoResult
    /\ NotDisc
    /\ UNCHANGED <<dialQueue, rt, discPeers, peerstore, discPc>>

\* The routing table on its own: insertions and removals in any order.
NextTable ==
    \/ \E id \in DiscIds : SyncConnectedPeer(id)
    \/ \E id \in DiscIds : RoutingTableRemove(id)

SpecTable == Init /\ [][NextTable]_vars

\* The routing table with its hooks and the dial loop's pop on the queue the
\* hooks write to.
NextHooks ==
    \/ \E id \in DiscIds : SyncConnectedPeer(id)
    \/ \E id \in DiscIds : RoutingTableRemove(id)
    \/ QPop

SpecHooks == Init /\ [][NextHooks]_vars

\* The responder: peers connect, addresses expire, requests are answered.
NextDisc ==
    \/ \E id \in DiscIds : SyncConnectedPeer(id)
    \/ \E id \in DiscIds : PeerstoreExpire(id)
    \/ \E from \in DiscIds, key \in ReqKeys, count \in ReqCounts :
          FindPeers(from, key, count)
    \/ FindPeersReturn

SpecDisc == Init /\ [][NextDisc]_vars

\* ------------------------------------------------------------ lookups
\* The discovery service of a node among its peers: the events of the
\* connections reach syncConnectedPeers, discovery.run wakes up (timer or
\* notify) and handleDiscovery asks one of discovery.peers for its peers.

NotLookup ==
    UNCHANGED <<pending, peers, dialPc, slots, dialI, dialSubQ, dialSubPc,
                watchSubQ, watcherPc, joinWatchers, pc, addrStr, target,
                timeout, result, sawOk, arrived, arrivedFresh, closePc,
                histVars, dqClosed, tt, lastDisconnect, busVars, moreVars>>

EventKinds ==
    {PeerEventConnected, PeerEventConnectedFailed, PeerEventDisconnected,
     PeerEventDialConnectedNode}

\* The connection the event reports: a new connection, a connection that is
\* gone, a connection closed after its failed handshake, a dial task for a
\* peer that is connected.
EventOccurs(id, type) ==
    CASE type = PeerEventConnected ->
            /\ id \notin hostConnected
            /\ hostConnected' = hostConnected \cup {id}
            /\ peerstore' = [peerstore EXCEPT ![id] = <<AddrOf(id)>>]
      [] type = PeerEventDisconnected ->
            /\ id \in hostConnected
            /\ hostConnected' = hostConnected \ {id}
            /\ UNCHANGED peerstore
      [] type = PeerEventConnectedFailed ->
            /\ id \notin hostConnected
            /\ UNCHANGED <<hostConnected, peerstore>>
      [] OTHER ->
            /\ id \in hostConnected
            /\ UNCHANGED <<hostConnected, peerstore>>

\* An event of the server and its handling by syncConnectedPeers' goroutine.
SyncPeerEvent(id, type) ==
    /\ discPc = "run"
    /\ Len(discPeers) < MaxDiscEvents
    /\ EventOccurs(id, type)
    /\ SyncHandle(id)
    /\ lastSync' = [PeerID |-> id, Type |-> type]
    /\ lastLookup' = NoLookup
    /\ lastResp' = NoResp
    /\ UNCHANGED <<discRunPc, discTarget>>
    /\ NotLookup

\* discovery.run leaves its select (timer or notifyCh) and handleDiscovery
\* takes any entry of discovery.peers as the target, if there is one.
handleDiscovery ==
    /\ discPc = "run"
    /\ discRunPc = "idle"
    /\ IF Len(discPeers) > 0
       THEN \E i \in 1..Len(discPeers) :
                /\ discTarget' = discPeers[i]
                /\ discRunPc' = "querying"
       ELSE UNCHANGED <<discRunPc, discTarget>>
    /\ lastSync' = NoSync
    /\ lastLookup' = NoLookup
    /\ NoResult
    /\ UNCHANGED <<hostConnected, dialQueue, rt, discPeers, peerstore, discPc>>
    /\ NotLookup

\* The text of a node in a FindPeers response.
NodeString(id) == <<"", "ip4", "h", "p2p", id>>

\* What the target may answer: nodes, a node without its identity, a node
\* with an identity and no address.
LookupResponses ==
    { <<>>,
      <<NodeString("p2")>>,
      <<NodeString("p2"), NodeString("p3")>>,
      <<NodeString("p4")>>,
      <<NodeString("p2"), <<"", "ip4", "h">>>>,
      <<NodeString("p2"), <<"", "p2p", "p3">>>> }

\* How a lookup may go: the stream cannot be opened, the request fails, the
\* target answers.
LookupOutcomes ==
    {[out |-> "stream", nodes |-> <<>>], [out |-> "request", nodes |-> <<>>]}
    \cup {[out |-> "response", nodes |-> n] : n \in LookupResponses}

\* findPeersCall: the stream, the request, and every node of the response
\* through StringToAddrInfo; the first error ends it.
RECURSIVE ParseNodes(_)
ParseNodes(nodes) ==
    IF nodes = <<>> THEN [err |-> FALSE, infos |-> <<>>]
    ELSE LET info == StringToAddrInfo(Head(nodes))
             rest == ParseNodes(Tail(nodes))
         IN  IF info.err \/ rest.err THEN [err |-> TRUE, infos |-> <<>>]
             ELSE [err |-> FALSE,
                   infos |-> <<[ID |-> info.ID, Addrs |-> info.Addrs]>> \o rest.infos]

findPeersCall(o) ==
    IF o.out # "response" THEN [status |-> o.out, infos |-> <<>>]
    ELSE LET r == ParseNodes(o.nodes)
         IN  IF r.err THEN [status |-> "address", infos |-> <<>>]
             ELSE [status |-> "ok", infos |-> r.infos]

\* Peerstore().AddAddr.
AddAddr(store, id, a) ==
    IF a \in Range(store[id]) THEN store ELSE [store EXCEPT ![id] = Append(@, a)]

\* The loop of call over the nodes: node.Addrs[0] (out of range without an
\* address), AddAddr, TryAddPeer with the PeerAdded hook; the first error
\* ends the loop and what was inserted before stays.
RECURSIVE CallNodes(_, _)
CallNodes(st, infos) ==
    IF infos = <<>> THEN st
    ELSE LET node == Head(infos)
         IN  IF node.Addrs = <<>> THEN [st EXCEPT !.status = "noaddr"]
             ELSE LET r == TryAddPeer(st.buckets, node.ID)
                      store == AddAddr(st.store, node.ID, node.Addrs[1])
                  IN  IF r.err # "nil"
                      THEN [st EXCEPT !.store = store, !.status = "insert"]
                      ELSE CallNodes([buckets |-> r.buckets,
                                      queue |-> IF r.added
                                                THEN PeerAdded(st.queue, node.ID)
                                                ELSE st.queue,
                                      store |-> store,
                                      status |-> "ok"],
                                     Tail(infos))

\* discovery.call for the outcome o, and handleDiscovery's panic on its
\* error (StartStream panics on its own error).
call(o) ==
    /\ discPc = "run"
    /\ discRunPc = "querying"
    /\ LET found == findPeersCall(o)
           st0 == [buckets |-> rt, queue |-> dialQueue, store |-> peerstore,
                   status |-> found.status]
           st == IF found.status = "ok" THEN CallNodes(st0, found.infos) ELSE st0
       IN  /\ rt' = st.buckets
           /\ dialQueue' = st.queue
           /\ peerstore' = st.store
           /\ lastLookup' = [target |-> discTarget, status |-> st.status,
                             nodes |-> o.nodes]
           /\ IF st.status = "ok"
              THEN discRunPc' = "idle" /\ discTarget' = "none" /\ UNCHANGED discPc
              ELSE discPc' = "panicked" /\ UNCHANGED <<discRunPc, discTarget>>
    /\ lastSync' = NoSync
    /\ NoResult
    /\ UNCHANGED <<hostConnected, discPeers>>
    /\ NotLookup

\* The peers the node has connections with; it learns of the others from the
\* responses.
Neighbours == {"p1", "p2"}

NextLookup ==
    \/ \E id \in Neighbours, type \in EventKinds : SyncPeerEvent(id, type)
    \/ handleDiscovery
    \/ \E o \in LookupOutcomes : call(o)

SpecLookup == Init /\ [][NextLookup]_vars

\* ------------------------------------------------------------ shutdown
\* Server.Close with the loops it is to stop: runDial, its SubscribeFn
\* goroutine, the join watcher, and the two loops of discovery.  The loops of
\* discovery select on discovery.closeCh, a channel that is never made and
\* never closed: no step of theirs ends them.
NextShutdown ==
    \/ ServerClose
    \/ DialComputeSlots
    \/ DialPopNil
    \/ DialConnectedNode
    \/ \E ok \in BOOLEAN : DialConnect(ok)
    \/ DialNotify
    \/ DialCloseCh
    \/ DialSubExit
    \/ WatcherStep
    \/ WatcherExit
    \/ \E id \in Neighbours, type \in EventKinds : SyncPeerEvent(id, type)
    \/ handleDiscovery
    \/ \E o \in LookupOutcomes : call(o)

SpecShutdown == Init /\ [][NextShutdown]_vars

\* Every loop takes the steps it can take.
SpecShutdownFair ==
    /\ SpecShutdown
    /\ WF_vars(DialComputeSlots)
    /\ WF_vars(DialPopNil)
    /\ WF_vars(DialConnectedNode)
    /\ WF_vars(\E ok \in BOOLEAN : DialConnect(ok))
    /\ WF_vars(DialNotify)
    /\ WF_vars(DialCloseCh)
    /\ WF_vars(DialSubExit)
    /\ WF_vars(WatcherStep)
    /\ WF_vars(WatcherExit)
    /\ WF_vars(handleDiscovery)
    /\ WF_vars(\E o \in LookupOutcomes : call(o))

\* ------------------------------------------------------------ tables and locks
\* The peer table and the join-watcher table with their locks: addPeer and
\* delPeer (called when a handshake ends and when a connection drops),
\* numPeers (called by runDial), watch (called by Join, here by two callers)
\* and runJoinWatcher.  Lock, the accesses and Unlock are steps of their own.

NotTables ==
    UNCHANGED <<hostConnected, pending, dialPc, dialI, dialSubQ, dialSubPc,
                watchSubQ, watcherPc, joinWatchers, pc, addrStr, target,
                timeout, result, sawOk, arrived, arrivedFresh, closePc,
                queueVars, histVars, lastDisconnect, busVars, discVars,
                lookupVars, filterVars>>

\* addPeer / delPeer: Lock.
PeerTableLock(op, id) ==
    /\ connPc = NoWrite
    /\ peersLock = "none"
    /\ IF op = "add" THEN id \notin peers ELSE id \in peers
    /\ peersLock' = "conn"
    /\ connPc' = [op |-> op, id |-> id]
    /\ lastAccess' = NoAccess
    /\ UNCHANGED <<peers, slots, joinWatchersLock, waiters, wPc, wPeer, wResult, jwPc>>
    /\ NotTables

\* addPeer / delPeer: the write and the deferred Unlock.
PeerTableWrite ==
    /\ connPc # NoWrite
    /\ peers' = IF connPc.op = "add" THEN peers \cup {connPc.id}
                ELSE peers \ {connPc.id}
    /\ lastAccess' = Access("conn", "peers", "write", peersLock)
    /\ peersLock' = "none"
    /\ connPc' = NoWrite
    /\ UNCHANGED <<slots, joinWatchersLock, waiters, wPc, wPeer, wResult, jwPc>>
    /\ NotTables

\* runDial's slot computation: numPeers reads len(s.peers) and takes no lock.
numPeersRead ==
    /\ slots' = IF MaxPeers - (numPeers + numPending) < 0 THEN 0
                ELSE MaxPeers - (numPeers + numPending)
    /\ lastAccess' = Access("dial", "peers", "read", peersLock)
    /\ UNCHANGED <<peers, peersLock, connPc, joinWatchersLock, waiters, wPc,
                   wPeer, wResult, jwPc>>
    /\ NotTables

\* watch: Lock.
WatchLock(c, p) ==
    /\ wPc[c] = "idle"
    /\ joinWatchersLock = "none"
    /\ joinWatchersLock' = c
    /\ wPc' = [wPc EXCEPT ![c] = "register"]
    /\ wPeer' = [wPeer EXCEPT ![c] = p]
    /\ lastAccess' = NoAccess
    /\ UNCHANGED <<peers, slots, peersLock, connPc, waiters, wResult, jwPc>>
    /\ NotTables

\* watch: s.joinWatchers[peerID] = ch, Unlock; the caller enters its select.
WatchRegister(c) ==
    /\ wPc[c] = "register"
    /\ waiters' = [waiters EXCEPT ![wPeer[c]] = c]
    /\ lastAccess' = Access(c, "joinWatchers", "write", joinWatchersLock)
    /\ joinWatchersLock' = "none"
    /\ wPc' = [wPc EXCEPT ![c] = "wait"]
    /\ UNCHANGED <<peers, slots, peersLock, connPc, wPeer, wResult, jwPc>>
    /\ NotTables

\* watch: the timer of the select fires, Lock.
WatchTimeoutLock(c) ==
    /\ wPc[c] = "wait"
    /\ joinWatchersLock = "none"
    /\ joinWatchersLock' = c
    /\ wPc' = [wPc EXCEPT ![c] = "expire"]
    /\ lastAccess' = NoAccess
    /\ UNCHANGED <<peers, slots, peersLock, connPc, waiters, wPeer, wResult, jwPc>>
    /\ NotTables

\* watch: delete(s.joinWatchers, peerID), Unlock, the timeout error.
WatchTimeoutDelete(c) ==
    /\ wPc[c] = "expire"
    /\ waiters' = [waiters EXCEPT ![wPeer[c]] = "none"]
    /\ lastAccess' = Access(c, "joinWatchers", "write", joinWatchersLock)
    /\ joinWatchersLock' = "none"
    /\ wPc' = [wPc EXCEPT ![c] = "done"]
    /\ wResult' = [wResult EXCEPT ![c] = "timeout"]
    /\ UNCHANGED <<peers, slots, peersLock, connPc, wPeer, jwPc>>
    /\ NotTables

\* runJoinWatcher reads an event of a kind it resolves waiters on: Lock.
JoinWatcherLock(p) ==
    /\ jwPc = "idle"
    /\ joinWatchersLock = "none"
    /\ joinWatchersLock' = "watcher"
    /\ jwPc' = p
    /\ lastAccess' = NoAccess
    /\ UNCHANGED <<peers, slots, peersLock, connPc, waiters, wPc, wPeer, wResult>>
    /\ NotTables

\* runJoinWatcher: the lookup of the event's peer; if a channel is found, the
\* send (taken by the channel's owner in its select) and the delete; Unlock.
JoinWatcherResolve ==
    /\ jwPc # "idle"
    /\ LET c == waiters[jwPc]
       IN  IF c = "none"
           THEN UNCHANGED <<waiters, wPc, wResult>>
           ELSE /\ wPc[c] = "wait"
                /\ wPc' = [wPc EXCEPT ![c] = "done"]
                /\ wResult' = [wResult EXCEPT ![c] = "nil"]
                /\ waiters' = [waiters EXCEPT ![jwPc] = "none"]
    /\ lastAccess' = Access("watcher", "joinWatchers", "write", joinWatchersLock)
    /\ joinWatchersLock' = "none"
    /\ jwPc' = "idle"
    /\ UNCHANGED <<peers, slots, peersLock, connPc, wPeer>>
    /\ NotTables

NextTables ==
    \/ \E op \in {"add", "del"}, id \in Peers : PeerTableLock(op, id)
    \/ PeerTableWrite
    \/ numPeersRead
    \/ \E c \in Joiners, p \in Peers : WatchLock(c, p)
    \/ \E c \in Joiners : WatchRegister(c)
    \/ \E c \in Joiners : WatchTimeoutLock(c)
    \/ \E c \in Joiners : WatchTimeoutDelete(c)
    \/ \E p \in Peers : JoinWatcherLock(p)
    \/ JoinWatcherResolve

SpecTables == Init /\ [][NextTables]_vars

\* ------------------------------------------------------------ filter manager
\* FilterManager: the filter map, the timer heap (container/heap over
\* timeHeapImpl), the block stream, the calls of the clients and the Run loop.
\* A heap is the record of the array t (filter ids) and of the filters f,
\* whose index fields Swap, Push and Pop write.  Positions count from 0.

NotFilter ==
    UNCHANGED <<serverVars, queueVars, histVars, lastDisconnect, busVars,
                discVars, lookupVars, lockVars>>

At(h, i) == h.t[i + 1]

\* timeHeapImpl.Less.
Less(h, i, j) == h.f[At(h, i)].timestamp < h.f[At(h, j)].timestamp

\* Swap exchanges the entries and leaves the index fields as they were.
SwapKeepsIndex(h, i, j) ==
    [h EXCEPT !.t = [h.t EXCEPT ![i + 1] = At(h, j), ![j + 1] = At(h, i)]]

\* timeHeapImpl.Swap.
Swap(h, i, j) ==
    [t |-> [h.t EXCEPT ![i + 1] = At(h, j), ![j + 1] = At(h, i)],
     f |-> [h.f EXCEPT ![At(h, j)].index = i, ![At(h, i)].index = j]]

\* heap.up.
RECURSIVE Up(_, _)
Up(h, j) ==
    LET i == (j - 1) \div 2
    IN  IF j = 0 \/ ~Less(h, j, i) THEN h ELSE Up(Swap(h, i, j), i)

\* heap.down: the heap, and where the entry came to rest.
RECURSIVE Down(_, _, _)
Down(h, i, n) ==
    LET j1 == 2 * i + 1
        j2 == j1 + 1
        j == IF j2 < n /\ Less(h, j2, j1) THEN j2 ELSE j1
    IN  IF j1 >= n THEN [h |-> h, i |-> i]
        ELSE IF ~Less(h, j, i) THEN [h |-> h, i |-> i]
        ELSE Down(Swap(h, i, j), j, n)

\* timeHeapImpl.Push and heap.Push.
HeapPush(h, id) ==
    LET n == Len(h.t)
    IN  Up([t |-> Append(h.t, id), f |-> [h.f EXCEPT ![id].index = n]], n)

\* timeHeapImpl.Pop.
HeapPop(h) ==
    LET n == Len(h.t)
    IN  [t |-> SubSeq(h.t, 1, n - 1), f |-> [h.f EXCEPT ![h.t[n]].index = -1]]

\* heap.Remove.
HeapRemove(h, i) ==
    LET n == Len(h.t) - 1
    IN  IF n = i THEN HeapPop(h)
        ELSE LET h1 == Swap(h, i, n)
                 d == Down(h1, i, n)
             IN  HeapPop(IF d.i > i THEN d.h ELSE Up(h1, i))

FmHeap == [t |-> fmTimer, f |-> fmFilters]

Installed == {id \in FilterIds : fmFilters[id].installed}

\* nextTimeoutFilter: nil without filters, else the first entry of the heap.
nextTimeoutFilter == IF Installed = {} THEN "nil" ELSE fmTimer[1]

\* The body of Uninstall: Lock; an id that is not in the map returns the
\* error and the lock stays held; else the delete, heap.Remove and Unlock.
UninstallBody(id) ==
    IF fmFilters[id].installed
    THEN LET h == HeapRemove([FmHeap EXCEPT !.f[id].installed = FALSE],
                             fmFilters[id].index)
         IN  /\ fmFilters' = h.f
             /\ fmTimer' = h.t
             /\ UNCHANGED fmLocked
    ELSE /\ fmLocked' = TRUE
         /\ UNCHANGED <<fmFilters, fmTimer>>

UninstallResult(id) ==
    IF fmFilters[id].installed THEN "nil" ELSE "errFilterDoesNotExists"

\* addFilter (NewBlockFilter, NewLogFilter): a new uuid, the filter into the
\* map and the heap with timestamp now + timeout, and the send on updateCh,
\* which Run takes only if it waits in its select.
addFilter(kind) ==
    /\ ~fmLocked
    /\ fmCount < MaxFilters
    /\ fmClock + FilterTimeout <= MaxTime
    /\ LET id == FilterIdSeq[fmCount + 1]
           f1 == [fmFilters EXCEPT ![id] =
                     [installed |-> TRUE, kind |-> kind,
                      block |-> IF kind = "block" THEN Len(stream) ELSE 0,
                      index |-> -1, timestamp |-> fmClock + FilterTimeout]]
           h == HeapPush([t |-> fmTimer, f |-> f1], id)
       IN  /\ fmFilters' = h.f
           /\ fmTimer' = h.t
           /\ lastCall' = [op |-> "addFilter", id |-> id, res |-> <<>>, err |-> "nil"]
    /\ fmCount' = fmCount + 1
    /\ fmSeen' = [fmSeen EXCEPT ![FilterIdSeq[fmCount + 1]] = Len(stream)]
    /\ fmRunPc' = IF fmRunPc = "select" THEN "top" ELSE fmRunPc
    /\ UNCHANGED <<fmLocked, fmClock, stream, fmRunFilter>>
    /\ NotFilter

\* Uninstall called by a client.
Uninstall(id) ==
    /\ ~fmLocked
    /\ UninstallBody(id)
    /\ lastCall' = [op |-> "Uninstall", id |-> id, res |-> <<>>,
                    err |-> UninstallResult(id)]
    /\ UNCHANGED <<fmClock, fmCount, stream, fmRunPc, fmRunFilter, fmSeen>>
    /\ NotFilter

\* strings.Join(updates, "\",\""), as the pieces of the string.
RECURSIVE JoinUpdates(_)
JoinUpdates(updates) ==
    IF updates = <<>> THEN <<>>
    ELSE IF Len(updates) = 1 THEN updates
    ELSE <<Head(updates), "\",\"">> \o JoinUpdates(Tail(updates))

\* fmt.Sprintf("[\"%s\"]", ...), as the pieces of the string.
Sprintf(updates) == <<"[\"">> \o JoinUpdates(updates) \o <<"\"]">>

\* headElem.getUpdates: the hashes after the element, and the last element.
getUpdates(block) == SubSeq(stream, block + 1, Len(stream))

\* GetFilterChanges: the error for an id that is not in the map, the logs of
\* a log filter, the new hashes of a block filter, whose element moves to the
\* head.
GetFilterChanges(id) ==
    /\ ~fmLocked
    /\ IF ~fmFilters[id].installed
       THEN /\ lastCall' = [op |-> "GetFilterChanges", id |-> id, res |-> <<>>,
                            err |-> "errFilterDoesNotExists"]
            /\ UNCHANGED fmFilters
       ELSE IF fmFilters[id].kind # "block"
       THEN /\ lastCall' = [op |-> "GetFilterChanges", id |-> id,
                            res |-> <<"logs">>, err |-> "nil"]
            /\ UNCHANGED fmFilters
       ELSE /\ lastCall' = [op |-> "GetFilterChanges", id |-> id,
                            res |-> Sprintf(getUpdates(fmFilters[id].block)),
                            err |-> "nil"]
            /\ fmFilters' = [fmFilters EXCEPT ![id].block = Len(stream)]
    /\ fmSeen' = [fmSeen EXCEPT ![id] = Len(stream)]
    /\ UNCHANGED <<fmTimer, fmLocked, fmClock, fmCount, stream, fmRunPc, fmRunFilter>>
    /\ NotFilter

\* Time passes.
FilterTick ==
    /\ fmClock < MaxTime
    /\ fmClock' = fmClock + 1
    /\ lastCall' = NoCall
    /\ UNCHANGED <<fmFilters, fmTimer, fmLocked, fmCount, stream, fmRunPc,
                   fmRunFilter, fmSeen>>
    /\ NotFilter

\* Run: nextTimeoutFilter.
RunNextTimeout ==
    /\ fmRunPc = "top"
    /\ ~fmLocked
    /\ fmRunFilter' = nextTimeoutFilter
    /\ fmRunPc' = "armed"
    /\ lastCall' = NoCall
    /\ UNCHANGED <<fmFilters, fmTimer, fmLocked, fmClock, fmCount, stream, fmSeen>>
    /\ NotFilter

\* Run: the timer is set (none for a nil filter) and the select is entered.
RunSelect ==
    /\ fmRunPc = "armed"
    /\ fmRunPc' = "select"
    /\ lastCall' = NoCall
    /\ UNCHANGED <<fmFilters, fmTimer, fmLocked, fmClock, fmCount, stream,
                   fmRunFilter, fmSeen>>
    /\ NotFilter

\* Run: a chain event; dispatchEvent pushes the new header's hash.
RunDispatchEvent ==
    /\ fmRunPc = "select"
    /\ ~fmLocked
    /\ Len(stream) <= MaxBlocks
    /\ stream' = Append(stream, HashOf(Len(stream)))
    /\ fmRunPc' = "top"
    /\ lastCall' = [op |-> "dispatchEvent", id |-> "nil", res |-> <<>>, err |-> "nil"]
    /\ UNCHANGED <<fmFilters, fmTimer, fmLocked, fmClock, fmCount, fmRunFilter,
                   fmSeen>>
    /\ NotFilter

\* Run: the timer of the filter fires and Uninstall(filter.id) is called.
RunTimeout ==
    /\ fmRunPc = "select"
    /\ fmRunFilter # "nil"
    /\ fmClock >= fmFilters[fmRunFilter].timestamp
    /\ ~fmLocked
    /\ UninstallBody(fmRunFilter)
    /\ lastCall' = [op |-> "timeout", id |-> fmRunFilter, res |-> <<>>,
                    err |-> UninstallResult(fmRunFilter)]
    /\ fmRunPc' = "top"
    /\ UNCHANGED <<fmClock, fmCount, stream, fmRunFilter, fmSeen>>
    /\ NotFilter

\* The ids a client holds: those of the filters created, and one that names
\* no filter.
KnownIds == {FilterIdSeq[i] : i \in 1..(fmCount + 1)}

\* The filter map and the timer heap under installs, uninstalls and timeouts.
NextHeap ==
    \/ \E kind \in {"block", "log"} : addFilter(kind)
    \/ \E id \in KnownIds : Uninstall(id)
    \/ FilterTick
    \/ RunNextTimeout
    \/ RunSelect
    \/ RunTimeout

SpecHeap == Init /\ [][NextHeap]_vars

\* The Run loop takes the steps it can take and time goes on.
SpecHeapFair ==
    /\ SpecHeap
    /\ WF_vars(FilterTick)
    /\ WF_vars(RunNextTimeout)
    /\ WF_vars(RunSelect)
    /\ WF_vars(RunTimeout)

\* The filters and their polls.
NextPoll ==
    \/ \E kind \in {"block", "log"} : addFilter(kind)
    \/ \E id \in KnownIds : GetFilterChanges(id)
    \/ RunNextTimeout
    \/ RunSelect
    \/ RunDispatchEvent

SpecPoll == Init /\ [][NextPoll]_vars

\* ------------------------------------------------------------ claims
\* The address strings of AddrStrings that name an identity, and the identity.
ValidAddrStrings ==
    { <<"", "ip4", "h", "p2p", "p1">>,
      <<"", "ip4", "h", "p2p", "p2">>,
      <<"", "p2p", "p1">> }

NamedIdentity(s) == s[Len(s)]

\* A caller that went through Join with a positive timeout and has returned.
ReturnedFromWatch(c) ==
    pc[c] = "done" /\ timeout[c] > 0 /\ result[c] # "parseError"

\* C1: the peer table never holds more than MaxPeers connected peers,
\* whatever the order of dial additions, dial-loop steps, connects and
\* disconnects.
C1_PeersWithinMaxPeers == Cardinality(peers) <= MaxPeers

\* C2: a Join with a positive timeout returns success whenever a Connected or
\* AlreadyConnected event for the target was published (and read by the join
\* watcher) after the enqueue and before the deadline elapsed.
C2_JoinSucceedsOnConnected ==
    \A c \in Callers : ReturnedFromWatch(c) /\ sawOk[c] => result[c] = "ok"

\* C3: when a ConnectFailed event for the target reaches the waiter before the
\* deadline, Join returns the reported error: neither success nor the timeout.
C3_JoinReturnsConnectError ==
    \A c \in Callers :
        ReturnedFromWatch(c) /\ arrived[c] = PeerEventConnectedFailed /\ arrivedFresh[c]
            => result[c] \notin {"ok", "timeout"}

\* C4: if no Connected, ConnectFailed or AlreadyConnected event for the target
\* reaches the waiter before the deadline, Join returns the timeout error and
\* the join-watcher table holds no waiter of this call once it has returned.
C4_TimeoutRemovesWaiter ==
    \A c \in Callers :
        ReturnedFromWatch(c) /\ arrived[c] = "none"
            => /\ result[c] = "timeout"
               /\ \A p \in Peers : joinWatchers[p] # c

C4_Witness ==
    \E c \in Callers :
        /\ ReturnedFromWatch(c)
        /\ arrived[c] = "none"
        /\ result[c] = "timeout"
        /\ tt.id = target[c]
        /\ target[c] \notin hostConnected

\* C5: no Join ends blocked forever: the join watcher never sits in a send to
\* a waiter whose deadline has elapsed, holding the join-watcher lock that the
\* waiter needs to return.
C5_NoLateDelivery ==
    ~(watcherPc = "blocked" /\ \E c \in Callers : pc[c] = "timedout")

\* C6: Join with timeout 0 enqueues a dial task for the identity, leaves the
\* join-watcher table as it is and returns success at once; the result and the
\* table's lack of a waiter of this call hold whatever happens to the dial.
C6_FireAndForget ==
    /\ [](\A c \in Callers :
            pc[c] = "done" /\ timeout[c] = 0 /\ addrStr[c] \in ValidAddrStrings
                => result[c] = "ok" /\ \A p \in Peers : joinWatchers[p] # c)
    /\ [][\A c \in Callers :
            /\ pc[c] = "idle"
            /\ pc'[c] # "idle"
            /\ timeout'[c] = 0
            /\ addrStr'[c] \in ValidAddrStrings
            => /\ pc'[c] = "done"
               /\ result'[c] = "ok"
               /\ joinWatchers' = joinWatchers
               /\ \E i \in 1..Len(dialQueue') :
                      dialQueue'[i] = Task(NamedIdentity(addrStr'[c]), JoinPriority)]_vars

C6_Witness ==
    \E c \in Callers :
        /\ pc[c] = "done"
        /\ timeout[c] = 0
        /\ result[c] = "ok"
        /\ target[c] \notin hostConnected
        /\ tt.id = target[c]

\* C7: JoinAddr with a string that does not parse into an AddrInfo returns an
\* error and leaves the dial queue and the join-watcher table unchanged.
C7_MalformedAddrRejected ==
    [][\A c \in Callers :
            /\ pc[c] = "idle"
            /\ pc'[c] # "idle"
            /\ addrStr'[c] \notin ValidAddrStrings
            => /\ pc'[c] = "done"
               /\ result'[c] = "parseError"
               /\ dialQueue' = dialQueue
               /\ joinWatchers' = joinWatchers]_vars

C7_Witness ==
    \E c \in Callers :
        /\ pc[c] = "done"
        /\ result[c] = "parseError"
        /\ addrStr[c] = <<"", "ip4", "h">>
        /\ dialQueue = <<>>

\* A step of runDial in which pop returned.
DialPopReturns == dialPc = "pop" /\ (dialPc' # "pop" \/ dialI' # dialI)

\* C10: pop returns a task only when one is queued (and an open, empty queue
\* makes it wait); once the queue is closed pop returns nil and never a task;
\* runDial returns on nil and does nothing afterwards.
C10_PopAndClose ==
    /\ [][DialPopReturns =>
            /\ dqClosed \/ dialQueue # <<>>
            /\ IF dqClosed
               THEN tt' = NilTask /\ dialQueue' = dialQueue
               ELSE /\ \E i \in 1..Len(dialQueue) : tt' = dialQueue[i]
                    /\ Len(dialQueue') = Len(dialQueue) - 1
                    /\ tt'.id \notin QueuedIds(dialQueue')
            /\ tt' = NilTask => dialPc' = "done"]_vars
    /\ [][dialPc = "done" => dialPc' = "done" /\ tt' = tt]_vars

C10_Witness ==
    /\ dialPc = "done"
    /\ tt = NilTask
    /\ dialQueue # <<>>
    /\ closePc = "queue"

\* The tasks the queue holds for an identity.
TasksOf(q, id) == {i \in 1..Len(q) : q[i].id = id}

\* A step that is a call of add, and one that is a pop returning a task.
AddStep == lastOp'.op = "add" /\ (lastOp' # lastOp \/ dialQueue' # dialQueue)
PopStep == lastOp'.op = "pop" /\ dialQueue' # dialQueue

\* C8: after any sequence of add, pop and del the queue holds at most one task
\* per identity; an add of an identity that is not queued leaves one task with
\* the given priority, and an add of a queued identity leaves that one task
\* with the lower of its priority and the given one, so that Add(id, p1) then
\* Add(id, p2) leaves one task of priority min(p1, p2).
C8_OneTaskPerIdentity ==
    /\ [](\A id \in QIds : Cardinality(TasksOf(dialQueue, id)) <= 1)
    /\ [][AddStep =>
            LET id == lastOp'.id
                now == TasksOf(dialQueue', id)
            IN  /\ Cardinality(now) = 1
                /\ Len(dialQueue') = Len(dialQueue) + (IF TasksOf(dialQueue, id) = {} THEN 1 ELSE 0)
                /\ \A i \in now :
                     dialQueue'[i].priority =
                        IF TasksOf(dialQueue, id) = {}
                        THEN lastOp'.priority
                        ELSE Min(dialQueue[IndexOf(dialQueue, id)].priority, lastOp'.priority)]_vars

\* Join enqueued p1 with priority 1, then discovery added p1 with priority 10.
C8_Witness ==
    /\ lastOp = [op |-> "add", id |-> "p1", priority |-> DiscoveryPriority]
    /\ qClock = 1
    /\ dialQueue = <<Task("p1", JoinPriority)>>

\* C9: pop returns the queued task with the lowest priority value, and among
\* the tasks of that priority the one that was added first.
C9_PopLowestThenOldest ==
    [][PopStep =>
         /\ \E i \in 1..Len(dialQueue) :
              /\ dialQueue[i] = Task(lastOp'.id, lastOp'.priority)
              /\ dialQueue' = RemoveAt(dialQueue, i)
         /\ \A j \in 1..Len(dialQueue) :
              \/ dialQueue[j].id = lastOp'.id
              \/ dialQueue[j].priority > lastOp'.priority
              \/ /\ dialQueue[j].priority = lastOp'.priority
                 /\ qStamp[dialQueue[j].id] > qStamp[lastOp'.id]]_vars

\* Priorities 5, 1, 1, 3 added in that order: the first pop took the first 1.
C9_Witness ==
    /\ lastOp.op = "pop"
    /\ lastOp.priority = 1
    /\ qClock = 4
    /\ Len(dialQueue) = 3
    /\ dialQueue[1].priority = 5 /\ qStamp[dialQueue[1].id] = 1
    /\ dialQueue[2].priority = 1 /\ qStamp[dialQueue[2].id] = 3
    /\ dialQueue[3].priority = 3 /\ qStamp[dialQueue[3].id] = 4

\* C11: a task is delivered by pop at most once. A pop returns an identity
\* only if the identity was added and has not been popped or removed since
\* (its stamp is set), and the task leaves the queue with the pop: the queue
\* holds exactly the identities added since they were last popped or removed,
\* so a later pop returns the identity only after a fresh add.
C11_PopDeliversOnce ==
    /\ [](\A id \in QIds : id \in QueuedIds(dialQueue) <=> qStamp[id] > 0)
    /\ [][lastOp'.op = "pop" /\ lastOp'.id # NilTask.id /\ lastOp' # lastOp =>
            /\ qStamp[lastOp'.id] > 0
            /\ lastOp'.id \notin QueuedIds(dialQueue')
            /\ Len(dialQueue') = Len(dialQueue) - 1]_vars

\* p1 was added, popped, added again and popped again.
C11_Witness ==
    /\ lastOp = [op |-> "pop", id |-> "p1", priority |-> DiscoveryPriority]
    /\ qClock = 2
    /\ dialQueue = <<>>
    /\ ~dqClosed

\* The queue without the task of an identity.
WithoutId(q, id) == SelectSeq(q, LAMBDA t : t.id # id)

\* A step that is a call of del.
DelStep == lastOp'.op = "del" /\ (lastOp' # lastOp \/ dialQueue' # dialQueue)

\* C12: del cancels the task of the identity if one is queued and changes
\* nothing otherwise: the other tasks stay, in their order and with their
\* priorities, and the identity is not queued (so that no pop returns it)
\* until it is added again.
C12_RemoveCancelsOnlyThatTask ==
    /\ [][DelStep =>
            /\ dialQueue' = WithoutId(dialQueue, lastOp'.id)
            /\ lastOp'.id \notin QueuedIds(dialQueue) => dialQueue' = dialQueue
            /\ dqClosed' = dqClosed]_vars
    /\ [][lastOp.op = "del" /\ lastOp'.op = "pop" => lastOp'.id # lastOp.id]_vars

\* The task of p2 was removed from between the tasks of p1 and p3.
C12_Witness ==
    /\ lastOp = [op |-> "del", id |-> "p2", priority |-> 0]
    /\ Len(dialQueue) = 2
    /\ dialQueue[1].id = "p1"
    /\ dialQueue[2].id = "p3"
    /\ qClock = 3

\* A step that is a call of Disconnect.
DisconnectStep == lastDisconnect' # lastDisconnect

\* The state of the server other than the transport's connections.
overlayVars == <<pending, peers, dialPc, slots, dialI, dialSubQ, dialSubPc,
                 watchSubQ, watcherPc, joinWatchers, pc, addrStr, target,
                 timeout, result, closePc, queueVars>>

\* C20: Disconnect of a peer that is not connected calls no ClosePeer and
\* changes nothing; Disconnect of a connected peer calls ClosePeer for that
\* peer, which closes the connections of that peer only; neither changes the
\* peer table, the queue, the waiters or the events, and neither fails.
C20_DisconnectBestEffort ==
    [][DisconnectStep =>
         LET p == lastDisconnect'.peer
         IN  /\ lastDisconnect'.closePeer <=> p \in hostConnected
             /\ hostConnected' = hostConnected \ {p}
             /\ p \notin hostConnected => hostConnected' = hostConnected
             /\ overlayVars' = overlayVars]_vars

\* Disconnect of p1, not connected, while p2 is a connected peer.
C20_Witness ==
    /\ lastDisconnect.peer = "p1"
    /\ ~lastDisconnect.closePeer
    /\ "p1" \notin hostConnected
    /\ "p2" \in peers
    /\ "p2" \in hostConnected

\* A step of emitEvent.
EmitStep == pubPc' # pubPc \/ pubIdx' # pubIdx

\* C13: every published event is eventually received by every subscriber
\* that was registered when it was published, keeps reading and has not been
\* closed; a publish while no subscription is open changes nothing.
C13_EveryEventDelivered ==
    /\ \A s \in DiligentSubs : \A k \in 1..MaxPublish :
         (Len(due[s]) >= k) ~> (Len(recv[s]) >= k \/ subState[s] = "closed")
    /\ [][EmitStep /\ (\A s \in Subs : subState[s] # "open") =>
            UNCHANGED <<subState, sinks, subOut, runPc, runObj, readPc, due, recv>>]_vars

\* C14: emitEvent never waits for a subscriber: it is never inside Emit in
\* front of an open subscription whose channel is full.
C14_PublishNeverBlocks ==
    ~(/\ pubPc = "emit"
      /\ pubIdx <= Len(sinks)
      /\ subState[sinks[pubIdx]] = "open"
      /\ Len(subOut[sinks[pubIdx]]) >= SubBuffer)

\* The events of a sequence, and the events of it about one identity.
EventsOf(q) == {q[i] : i \in 1..Len(q)}

\* C15: a subscriber receives the events about an identity in the order of
\* their publication, and receives only events published to it.
C15_PublishOrderPerIdentity ==
    \A s \in Subs :
        /\ EventsOf(recv[s]) \subseteq EventsOf(due[s])
        /\ \A i, j \in 1..Len(recv[s]) :
             i < j /\ recv[s][i].ev.PeerID = recv[s][j].ev.PeerID
                => recv[s][i].n < recv[s][j].n

\* s1 received two events about p1 and two about p2, s2 subscribed later.
C15_Witness ==
    /\ Len(recv["s1"]) = 4
    /\ Len(recv["s2"]) = 2
    /\ Len(due["s2"]) = 2

\* C16: once a handle is closed, a read on it that is waiting or starts later
\* returns with end-of-stream, and no read on it returns an event any more.
C16_ClosedReadReportsEnd ==
    /\ \A s \in Subs :
         (subState[s] = "closed" /\ readPc[s] = "get") ~> (readPc[s] = "eos")
    /\ [][\A s \in Subs : subState[s] = "closed" => recv'[s] = recv[s]]_vars

\* The step is a TryAddPeer.
InsertStep == lastInsert' # NoInsert

\* The entries of the table that belong to the bucket of id by their distance
\* to the local identity.
BucketOf(buckets, id) == {x \in TablePeers(buckets) : Cpl(x) = Cpl(id)}

\* C17: after any sequence of insertions and removals no bucket of the routing
\* table holds more than defaultBucketSize entries (the buckets the table
\* keeps, and the entries of one distance range); an insertion of a new
\* identity is accepted exactly if its bucket has room, and one into a full
\* bucket is rejected with an error in the insertion's result and leaves the
\* table's entries as they were.
C17_BucketCapacity ==
    /\ [](/\ \A i \in 1..Len(rt) : Len(rt[i]) <= defaultBucketSize
          /\ \A id \in DiscIds : Cardinality(BucketOf(rt, id)) <= defaultBucketSize)
    /\ [][InsertStep =>
            LET id == lastInsert'.id
                new == id \notin TablePeers(rt)
                full == Cardinality(BucketOf(rt, id)) >= defaultBucketSize
            IN  /\ lastInsert'.added = (new /\ ~full)
                /\ (lastInsert'.err # "nil") = (new /\ full)
                /\ TablePeers(rt') = IF lastInsert'.added
                                     THEN TablePeers(rt) \cup {id}
                                     ELSE TablePeers(rt)]_vars

\* A bucket is full and the insertion of one more identity of that bucket was
\* rejected.
C17_Witness ==
    /\ lastInsert.err = "ErrPeerRejectedNoCapacity"
    /\ ~lastInsert.added
    /\ lastInsert.id \notin TablePeers(rt)
    /\ Cardinality(BucketOf(rt, lastInsert.id)) = defaultBucketSize

\* C18: the identities FindPeers selects for (key, n) and a requester are at
\* most n, are entries of the routing table, are sorted by non-decreasing XOR
\* distance to the key, and do not contain the requester.
C18_NearestToSortedBounded ==
    lastResp.status # "none" =>
        LET r == lastResp.ids
            key == ConvertKey(lastResp.target)
        IN  /\ Len(r) <= lastResp.limit
            /\ Range(r) \subseteq TablePeers(rt)
            /\ \A i, j \in 1..Len(r) :
                  i < j => Distance(r[i], key) <= Distance(r[j], key)
            /\ lastResp.from \notin Range(r)

\* The table holds three identities, the requester among them, and the
\* request was answered with the two others.
C18_Witness ==
    /\ lastResp.status = "ok"
    /\ Cardinality(TablePeers(rt)) = 3
    /\ lastResp.from \in TablePeers(rt)
    /\ Len(lastResp.ids) = 2

\* C19: every FindPeers request (key, count) of a requester is answered; the
\* limit is min(count, 16), the key is the requester's identity when the
\* request has none, and the response holds the addresses of the identities
\* nearest to the key without the requester: at most 16, never the requester.
C19_FindPeersResponse ==
    lastResp.status # "none" =>
        /\ lastResp.status = "ok"
        /\ lastResp.limit = Min(lastResp.count, MaxFindPeers)
        /\ lastResp.target = IF lastResp.key = "" THEN String(lastResp.from)
                             ELSE lastResp.key
        /\ Len(lastResp.nodes) <= MaxFindPeers
        /\ Len(lastResp.nodes) = Len(lastResp.ids)
        /\ \A i \in 1..Len(lastResp.nodes) :
              /\ NamedIdentity(lastResp.nodes[i]) = lastResp.ids[i]
              /\ NamedIdentity(lastResp.nodes[i]) # lastResp.from

\* The host is closed: Server.Close has run host.Close().
HostClosed == closePc # "open"

\* C22: Server.Close closes the dial queue first, then the subscriptions, then
\* releases the peer table: the transport host is never closed while the dial
\* queue is open, no subscription is closed before the dial queue, and the
\* peer table is released once Close has returned.
C22_CloseOrder ==
    /\ HostClosed => dqClosed
    /\ (dialSubPc = "closed" \/ watcherPc = "closed") => dqClosed
    /\ closePc = "closed" => peers = {}

\* A step of runDial in which pop returned a task and the task was handled.
DialTaskStep == dialPc = "pop" /\ dialI' = dialI + 1

\* C23: for every task runDial pops: if the transport reports the peer
\* connected, no connection is started and one PeerDialConnectedNode event of
\* that identity goes to every open subscription; otherwise no event is
\* published and host.Connect is called once (the connection starts, or the
\* call fails and nothing changes).
C23_DialOrAlreadyConnected ==
    [][DialTaskStep =>
          LET id == tt'.id
          IN  IF id \in hostConnected
              THEN /\ hostConnected' = hostConnected
                   /\ pending' = pending
                   /\ dialSubPc = "run" =>
                         dialSubQ' = Append(dialSubQ, PeerEventDialConnectedNode)
                   /\ watcherPc # "closed" =>
                         /\ Len(watchSubQ') = Len(watchSubQ) + 1
                         /\ SubSeq(watchSubQ', 1, Len(watchSubQ)) = watchSubQ
                         /\ watchSubQ'[Len(watchSubQ')].PeerID = id
                         /\ watchSubQ'[Len(watchSubQ')].Type = PeerEventDialConnectedNode
              ELSE /\ dialSubQ' = dialSubQ
                   /\ watchSubQ' = watchSubQ
                   /\ \/ /\ hostConnected' = hostConnected \cup {id}
                         /\ pending' = pending \cup {id}
                      \/ /\ hostConnected' = hostConnected
                         /\ pending' = pending]_vars

\* runDial popped the task of a connected peer and its event waits in the
\* join watcher's subscription.
C23_Witness ==
    /\ tt.id \in hostConnected
    /\ dialPc = "wait"
    /\ watchSubQ # <<>>
    /\ watchSubQ[Len(watchSubQ)].PeerID = tt.id
    /\ watchSubQ[Len(watchSubQ)].Type = PeerEventDialConnectedNode

\* A step of runDial in which host.Connect is called.
DialConnectStep == DialTaskStep /\ tt'.id \notin hostConnected

\* C25: whenever runDial calls host.Connect, the peers of the peer table plus
\* the peers in their handshake are fewer than MaxPeers at that moment.
C25_ConnectWithinBudget ==
    [][DialConnectStep => numPeers + numPending < MaxPeers]_vars

\* C24: runDial misses no wake-up: a task does not stay in the dial queue
\* for ever while the peers of the peer table plus the peers in their
\* handshake stay below MaxPeers; it is popped and dialed at some time,
\* also after an earlier task of the round failed to connect or was connected
\* already.
C24_NoMissedWakeup ==
    \A id \in Peers :
        []<>~(id \in QueuedIds(dialQueue) /\ numPeers + numPending < MaxPeers)

PrioritiesOf(q) == {q[i].priority : i \in 1..Len(q)}

\* C30: with a task of Join (priority 1) and a task of discovery (priority
\* 10) in the dial queue, pop returns a task of Join, whatever the order in
\* which they were added; Join's add for an identity that discovery has
\* queued leaves that one task, with Join's priority.
C30_JoinBeforeDiscovery ==
    /\ [][/\ PopStep
          /\ JoinPriority \in PrioritiesOf(dialQueue)
          /\ DiscoveryPriority \in PrioritiesOf(dialQueue)
          => lastOp'.priority = JoinPriority]_vars
    /\ [][/\ AddStep
          /\ lastOp'.priority = JoinPriority
          /\ Task(lastOp'.id, DiscoveryPriority) \in Range(dialQueue)
          => /\ Len(dialQueue') = Len(dialQueue)
             /\ Task(lastOp'.id, JoinPriority) \in Range(dialQueue')
             /\ TasksOf(dialQueue', lastOp'.id) = TasksOf(dialQueue, lastOp'.id)]_vars

\* Discovery's task was added first, Join's second, and pop returned Join's.
C30_Witness ==
    /\ lastOp.op = "pop"
    /\ lastOp.priority = JoinPriority
    /\ qClock = 2
    /\ Len(dialQueue) = 1
    /\ dialQueue[1].priority = DiscoveryPriority
    /\ qStamp[dialQueue[1].id] = 1

\* A step of syncConnectedPeers' goroutine, of handleDiscovery that starts a
\* lookup, and of call that ends one.
SyncStep == lastSync' # NoSync

LookupStart == discRunPc = "idle" /\ discRunPc' = "querying"

LookupEnd == discRunPc = "querying" /\ lastLookup' # NoLookup

\* C29: the discovery service inserts the peer of an event into its routing
\* table and into its list of known peers only when the event is a Connected
\* event; an event of any other kind changes neither.
C29_OnlyConnectedSynced ==
    [][(SyncStep /\ lastSync'.Type # PeerEventConnected)
           => (rt' = rt /\ discPeers' = discPeers)]_vars

Occurrences(q, id) == Cardinality({i \in 1..Len(q) : q[i] = id})

\* C27: when a lookup starts, its target is a peer with an established
\* connection, and the candidates are the connected peers, each exactly once:
\* a peer that disconnected or whose connection failed is no candidate.
C27_TargetIsConnected ==
    [][LookupStart =>
           /\ discTarget' \in hostConnected
           /\ \A id \in DiscIds :
                  Occurrences(discPeers, id) = IF id \in hostConnected THEN 1 ELSE 0]_vars

\* C28: a lookup that fails (the stream cannot be opened, the request returns
\* an error, the response holds a malformed address, an insertion fails)
\* leaves the routing table and the dial queue as they were, and the service
\* keeps running.
C28_FailedLookupHarmless ==
    [][(LookupEnd /\ lastLookup'.status # "ok")
           => (rt' = rt /\ dialQueue' = dialQueue /\ discPc' = "run")]_vars

\* C26: the discovery service has at most one outstanding lookup; it leaves
\* Idle for Querying only when it was woken and knows a peer; every end of a
\* lookup, success or failure, brings it back to Idle.
C26_IdleQuerying ==
    [][/\ LookupStart => (Len(discPeers) > 0 /\ discTarget = "none")
       /\ (discRunPc = "querying" /\ discRunPc' = "querying")
              => discTarget' = discTarget
       /\ LookupEnd => (discRunPc' = "idle" /\ discPc' = "run")]_vars

\* The identities of the nodes of a response.
NodeIds(nodes) == {StringToAddrInfo(nodes[i]).ID : i \in 1..Len(nodes)}

\* C21: a lookup that succeeds has, when call returns, every identity of the
\* response in the routing table, and for every identity it inserted a dial
\* task of the discovery priority (10) in the dial queue, which is less urgent
\* than Join's priority (1).
C21_LookupInsertsAndEnqueues ==
    [][(LookupEnd /\ lastLookup'.status = "ok") =>
           /\ discRunPc' = "idle"
           /\ DiscoveryPriority > JoinPriority
           /\ \A id \in NodeIds(lastLookup'.nodes) :
                  /\ id \in TablePeers(rt')
                  /\ id \notin TablePeers(rt)
                         => Task(id, DiscoveryPriority) \in Range(dialQueue')]_vars

\* A is connected to B (p1) only, B answers with the address of C (p2): C is
\* in A's routing table and a discovery task for C is queued.
C21_Witness ==
    /\ lastLookup = [target |-> "p1", status |-> "ok", nodes |-> <<NodeString("p2")>>]
    /\ hostConnected = {"p1"}
    /\ discPeers = <<"p1">>
    /\ "p2" \in TablePeers(rt)
    /\ dialQueue = <<Task("p1", DiscoveryPriority), Task("p2", DiscoveryPriority)>>
    /\ discRunPc = "idle"

\* A step that removes id from the routing table, and a step of the dial
\* loop's pop.
TableRemoves(id) == id \in TablePeers(rt) /\ id \notin TablePeers(rt')

DialPops == rt' = rt /\ Len(dialQueue') = Len(dialQueue) - 1

\* C31: the step that removes an identity from the routing table leaves no
\* dial task of that identity in the queue and keeps the tasks of the others;
\* the dial loop afterwards pops only tasks of identities that are in the
\* table (again).
C31_RemovedIsCancelled ==
    [][/\ \A id \in DiscIds :
              TableRemoves(id) =>
                  /\ id \notin QueuedIds(dialQueue')
                  /\ dialQueue' = SelectSeq(dialQueue, LAMBDA t : t.id # id)
       /\ DialPops =>
              /\ lastOp'.id \in TablePeers(rt)
              /\ QueuedIds(dialQueue') \subseteq TablePeers(rt')]_vars

\* p2 and then p1 were inserted and p1 was removed: the older task of p2 is
\* still queued, the task of p1 is gone.
C31_Witness ==
    /\ discPeers = <<"p2", "p1">>
    /\ "p1" \notin TablePeers(rt)
    /\ "p2" \in TablePeers(rt)
    /\ dialQueue = <<Task("p2", DiscoveryPriority)>>

\* A step of runDial in which host.Connect is called and fails.
ConnectFails == DialConnectStep /\ hostConnected' = hostConnected

\* C32: a connect attempt of the dial loop that fails publishes a
\* PeerConnectedFailed event of that identity to every open subscription and
\* leaves no task of the identity in the queue (no automatic retry).
C32_FailedConnectReported ==
    [][ConnectFails =>
          /\ tt'.id \notin QueuedIds(dialQueue')
          /\ dialSubPc = "run" =>
                dialSubQ' = Append(dialSubQ, PeerEventConnectedFailed)
          /\ watcherPc # "closed" =>
                /\ Len(watchSubQ') = Len(watchSubQ) + 1
                /\ watchSubQ'[Len(watchSubQ')].PeerID = tt'.id
                /\ watchSubQ'[Len(watchSubQ')].Type = PeerEventConnectedFailed]_vars

\* C33: every read and write of the peer table and of the join-watcher table
\* is made by a goroutine that holds the table's lock.
C33_TablesUnderLock == lastAccess.locked

\* A caller whose waiter is registered and that waits in watch's select.
Waiting(c, p) == wPc[c] = "wait" /\ wPeer[c] = p

\* C34: when runJoinWatcher handles an event for a peer, every caller that
\* waits for that peer is resolved; and the timeout of one caller leaves the
\* registered waiter of every other caller in the table.
C34_OverlappingJoins ==
    [][/\ (jwPc # "idle" /\ jwPc' = "idle") =>
              \A c \in Joiners : Waiting(c, jwPc) => wResult'[c] = "nil"
       /\ \A c \in Joiners :
              (wPc[c] = "expire" /\ wPc'[c] = "done") =>
                  \A d \in Joiners \ {c} :
                      (Waiting(d, wPeer[d]) /\ waiters[wPeer[d]] = d)
                          => waiters'[wPeer[d]] = d]_vars

\* The loops of the server and of discovery have ended.
ServerLoopsStopped ==
    dialPc = "done" /\ dialSubPc = "closed" /\ watcherPc = "closed"

DiscoveryLoopsStopped == discPc # "run"

\* C35: after Server.Close has returned, the dial loop, its forwarding loop,
\* the join watcher and the loops of discovery all end.
C35_LoopsStopAfterClose ==
    (closePc = "closed") ~> (ServerLoopsStopped /\ DiscoveryLoopsStopped)

\* The loops of the server do end after Close.
C35_ServerLoopsStop == (closePc = "closed") ~> ServerLoopsStopped

\* C37: the filter map and the timer heap hold the same filters, once each;
\* the index field of every filter is its position in the heap; and
\* nextTimeoutFilter is nil when no filter is installed and otherwise an
\* installed filter with the earliest timestamp.
C37_HeapMatchesMap ==
    /\ Range(fmTimer) = Installed
    /\ Len(fmTimer) = Cardinality(Installed)
    /\ \A i \in 1..Len(fmTimer) : fmFilters[fmTimer[i]].index = i - 1
    /\ Installed = {} => nextTimeoutFilter = "nil"
    /\ Installed # {} =>
           /\ nextTimeoutFilter \in Installed
           /\ \A id \in Installed :
                  fmFilters[nextTimeoutFilter].timestamp <= fmFilters[id].timestamp

\* Three filters with one timestamp were installed and the first was removed:
\* the last one took its place at the top of the heap.
C37_Witness ==
    /\ fmTimer = <<"f3", "f2">>
    /\ ~fmFilters["f1"].installed
    /\ fmFilters["f1"].index = -1
    /\ fmFilters["f3"].index = 0
    /\ lastCall.op \in {"Uninstall", "timeout"}

\* A step in which Uninstall was called, by a client or by Run's timer, for
\* an id that is not installed.
UninstallMissing ==
    /\ lastCall' # lastCall
    /\ lastCall'.op \in {"Uninstall", "timeout"}
    /\ ~fmFilters[lastCall'.id].installed

\* C36: Uninstall of an id that is not installed returns
\* errFilterDoesNotExists, leaves the filter map and the timer heap as they
\* were, and leaves the manager's lock free for the calls that follow.
C36_UninstallMissing ==
    [][UninstallMissing =>
           /\ lastCall'.err = "errFilterDoesNotExists"
           /\ fmFilters' = fmFilters
           /\ fmTimer' = fmTimer
           /\ ~fmLocked']_vars

\* C39: every installed filter is removed in the end; the timer removes the
\* filter whose deadline fired, which has the earliest timestamp, and no
\* other.
C39_TimeoutRemoves ==
    /\ \A id \in FilterIds :
           fmFilters[id].installed ~> ~fmFilters[id].installed
    /\ [][lastCall'.op = "timeout" /\ lastCall' # lastCall =>
              /\ fmClock >= fmFilters[lastCall'.id].timestamp
              /\ Installed' \in {Installed, Installed \ {lastCall'.id}}
              /\ \A id \in Installed :
                     fmFilters[lastCall'.id].timestamp <= fmFilters[id].timestamp]_vars

\* The safety half of C39 alone.
C39_TimerRemovesItsFilter ==
    [][lastCall'.op = "timeout" /\ lastCall' # lastCall =>
           /\ fmClock >= fmFilters[lastCall'.id].timestamp
           /\ Installed' \in {Installed, Installed \ {lastCall'.id}}]_vars

\* The list a client reads from the text GetFilterChanges returned: what
\* stands between the quotes, split at the separators.
RECURSIVE SplitPieces(_)
SplitPieces(inner) ==
    IF inner = <<>> THEN <<"">>
    ELSE IF Len(inner) = 1 THEN inner
    ELSE <<Head(inner)>> \o SplitPieces(SubSeq(inner, 3, Len(inner)))

JsonList(res) == SplitPieces(SubSeq(res, 2, Len(res) - 1))

\* A step in which GetFilterChanges answered for a block filter.
BlockPoll ==
    /\ lastCall' # lastCall
    /\ lastCall'.op = "GetFilterChanges"
    /\ lastCall'.err = "nil"
    /\ fmFilters[lastCall'.id].kind = "block"

\* The hashes pushed since the filter was created or last polled.
NewHashes(id) == SubSeq(stream, fmSeen[id] + 1, Len(stream))

\* C38: a poll of a block filter returns, in push order, the hashes pushed
\* since the filter was created or last polled, and the empty list when there
\* are none.
C38_BlockFilterChanges ==
    [][BlockPoll => JsonList(lastCall'.res) = NewHashes(lastCall'.id)]_vars

\* C38 for the polls that have a new hash to return.
C38_NewHashesOnce ==
    [][(BlockPoll /\ NewHashes(lastCall'.id) # <<>>)
           => JsonList(lastCall'.res) = NewHashes(lastCall'.id)]_vars

====
